---- MODULE Spec2Model ----
(***************************************************************************)
(* Model of the vehicular-fog scheduling simulator: the fog node and its   *)
(* trust update (fog_node.py, trust_manager.py), the task graph            *)
(* (task.py, dag_manager.py), the two schedulers and the trial loops of    *)
(* simulator.py.                                                           *)
(*                                                                         *)
(* Numbers.  Scores are fixed-point integers: trust and mobility are       *)
(* counted in units of 1/Scale (0.05), weights in units of 1/WScale (0.1), *)
(* so a reliability (weight * score) is counted in units of                *)
(* 1/(Scale*WScale).  Score 1.0 is Scale, reliability 1.0 is RelOne.       *)
(***************************************************************************)
EXTENDS Integers, Sequences, FiniteSets, TLC

\* ---------------------------------------------------------------- bounds
\* operations applied to one node after its construction
MaxOps == 3
\* tasks of a task set (ids 1..n for n up to NTasks)
NTasks == 3
\* dependency entries of a task set, over all tasks together
MaxEdges == 2
\* nodes of a trial (0..NNodes)
NNodes == 2
\* tasks of a task set whose tasks also change status (ids 1..n up to NReadyTasks)
NReadyTasks == 2
\* draws another trial takes from the generator before the stream is left alone
MaxDraws == 2

\* ---------------------------------------------------------------- units
Scale == 20
WScale == 10
RelOne == Scale * WScale

Min(a, b) == IF a < b THEN a ELSE b
Max(a, b) == IF a > b THEN a ELSE b

\* min(max(x, 0.0), 1.0) on a score
Clamp01(x) == Min(Max(x, 0), Scale)

\* ------------------------------------------------- mobility_predictor.py
STATE_LABELS == <<"SLOW", "MEDIUM", "FAST">>

discretize_speed(speed) ==
    IF speed < 40 THEN "SLOW" ELSE IF speed < 80 THEN "MEDIUM" ELSE "FAST"

\* Transition matrices (rows and columns SLOW, MEDIUM, FAST), entries in
\* units of 1/Scale.  "fixture" is the matrix of tests/test_core.py,
\* "prior" the neutral row of build_transition_model rounded to the unit,
\* "sticky" a matrix whose rows put all mass on SLOW and MEDIUM.
Matrices ==
    [ fixture |-> [SLOW |-> <<12, 6, 2>>, MEDIUM |-> <<4, 12, 4>>, FAST |-> <<2, 6, 12>>],
      prior   |-> [SLOW |-> <<7, 7, 6>>,  MEDIUM |-> <<7, 7, 6>>,  FAST |-> <<7, 7, 6>>],
      sticky  |-> [SLOW |-> <<10, 10, 0>>, MEDIUM |-> <<10, 10, 0>>, FAST |-> <<10, 10, 0>>] ]

\* TransitionModel.stay_probability: mass on SLOW and MEDIUM, clamped
stay_probability(tm, current_state) ==
    Clamp01(Matrices[tm][current_state][1] + Matrices[tm][current_state][2])

\* ------------------------------------------------------ trust_manager.py
\* an update that adds dec on success and takes inc on failure
update_trust_swapped(trust, success, inc, dec) ==
    Clamp01(IF success THEN trust + dec ELSE trust - inc)

update_trust_unclamped(trust, success, inc, dec) ==
    IF success THEN trust + inc ELSE trust - dec

update_trust(trust, success, inc, dec) ==
    Clamp01(IF success THEN trust + inc ELSE trust - dec)

\* ------------------------------------------------------------ fog_node.py
DefaultTW == 5
DefaultMW == 5
DefaultInc == 1
DefaultDec == 2

reliability_sum(n, tw, mw) ==
    [n EXCEPT !.reliability_score = WScale * n.trust_score + WScale * n.mobility_score]

\* FogNode.compute_reliability: the node with reliability_score stored
compute_reliability(n, tw, mw) ==
    [n EXCEPT !.reliability_score = tw * n.trust_score + mw * n.mobility_score]

\* FogNode.compute_mobility_score: only mobility_score is assigned
compute_mobility_score(n) ==
    [n EXCEPT !.mobility_score = stay_probability(n.tm, n.current_state)]

\* an update of trust and counter that leaves the reliability as it was
node_update_trust_only(n, success, inc, dec) ==
    [n EXCEPT !.trust_score = update_trust(n.trust_score, success, inc, dec),
              !.successes = IF success THEN @ + 1 ELSE @,
              !.failures = IF success THEN @ ELSE @ + 1]

\* FogNode.update_trust: trust, one counter, then compute_reliability()
\* with the default weights
node_update_trust(n, success, inc, dec) ==
    LET t == update_trust(n.trust_score, success, inc, dec)
        m == [n EXCEPT !.trust_score = t,
                       !.successes = IF success THEN @ + 1 ELSE @,
                       !.failures = IF success THEN @ ELSE @ + 1]
    IN  compute_reliability(m, DefaultTW, DefaultMW)

\* FogNode.__init__ (dataclass) followed by __post_init__: the scores are
\* clamped, the reliability passed in is replaced by compute_reliability()
\* and the three results are remembered as the initial metrics
NewFogNode(node_id, speed, trust, mobility, reliability, tm, social, central, current_state, past_success, past_failure) ==
    LET raw == [ node_id |-> node_id, speed |-> speed,
                 trust_score |-> Clamp01(trust),
                 mobility_score |-> Clamp01(mobility),
                 reliability_score |-> reliability,
                 tm |-> tm, social_trust |-> social, centrality |-> central,
                 current_state |-> current_state,
                 past_success |-> past_success, past_failure |-> past_failure,
                 initial_trust |-> 0, initial_mobility |-> 0,
                 initial_reliability |-> 0,
                 successes |-> 0, failures |-> 0 ]
        n == compute_reliability(raw, DefaultTW, DefaultMW)
    IN  [n EXCEPT !.initial_trust = n.trust_score,
                  !.initial_mobility = n.mobility_score,
                  !.initial_reliability = n.reliability_score,
                  !.current_state = IF current_state = ""
                                    THEN discretize_speed(speed)
                                    ELSE current_state,
                  !.successes = past_success,
                  !.failures = past_failure]

\* FogNode.reset
node_reset(n) ==
    [n EXCEPT !.trust_score = n.initial_trust,
              !.mobility_score = n.initial_mobility,
              !.reliability_score = n.initial_reliability,
              !.current_state = discretize_speed(n.speed),
              !.successes = n.past_success,
              !.failures = n.past_failure]

\* FogNode.clone: a new FogNode from the current field values
node_clone(n) ==
    NewFogNode(n.node_id, n.speed, n.trust_score, n.mobility_score,
               n.reliability_score, n.tm, n.social_trust, n.centrality,
               n.current_state, n.past_success, n.past_failure)

\* a clone() that returns the node itself: the name "clone" then refers to
\* the object of "orig"
clone_alias(f, o) ==
    [fn |-> [w \in {"orig", "clone"} |-> f["orig"]],
     obj |-> [w \in {"orig", "clone"} |-> o["orig"]]]

\* FogNode.clone as the caller sees it: "clone" names a new object, built
\* by node_clone from the original; f are the nodes by name, o the objects
\* the names refer to
clone_into(f, o) ==
    [fn |-> [w \in {"orig", "clone"} |->
                IF w = "clone" THEN node_clone(f["orig"]) ELSE f["orig"]],
     obj |-> [w \in {"orig", "clone"} |->
                IF w = "clone" THEN o["orig"] + 1 ELSE o["orig"]]]

\* ---------------------------------------------------------------- task.py
\* Python's None in an integer-valued field
None == 0 - 1
DefaultMaxRetries == 2

\* Task.__init__
NewTask(task_id, execution_time, deps, max_retries) ==
    [ task_id |-> task_id, execution_time |-> execution_time,
      dependencies |-> deps, status |-> "pending", assigned_node |-> None,
      start_time |-> None, finish_time |-> None, retry_count |-> 0,
      max_retries |-> max_retries ]

is_ready_any(task, completed_tasks) ==
    \/ Len(task.dependencies) = 0
    \/ \E i \in 1..Len(task.dependencies) : task.dependencies[i] \in completed_tasks

\* Task.is_ready: all(dep_id in completed_tasks for dep_id in dependencies)
is_ready(task, completed_tasks) ==
    \A i \in 1..Len(task.dependencies) : task.dependencies[i] \in completed_tasks

\* Task.assign_to_node
assign_to_node(task, node_id) ==
    [task EXCEPT !.assigned_node = node_id, !.status = "running"]

\* a completion that records the task's own execution time, not the clock
mark_completed_duration(task, completion_time) ==
    [task EXCEPT !.status = "completed", !.finish_time = task.execution_time]

\* Task.mark_completed
mark_completed(task, completion_time) ==
    [task EXCEPT !.status = "completed", !.finish_time = completion_time]

\* Task.mark_failed
mark_failed(task) == [task EXCEPT !.status = "failed"]

\* a reset of the status alone
task_reset_status(task) == [task EXCEPT !.status = "pending"]

\* Task.reset
task_reset(task) ==
    [task EXCEPT !.status = "pending", !.assigned_node = None,
                 !.start_time = None, !.finish_time = None, !.retry_count = 0]

\* Task.can_retry
can_retry(task) == task.retry_count < task.max_retries

\* Task.increment_retry
increment_retry(task) == [task EXCEPT !.retry_count = @ + 1]

\* elements of a list
SeqToSet(q) == { q[i] : i \in 1..Len(q) }

\* ---------------------------------------------------------- dag_manager.py
\* A DAGManager is the pair (T, ids): T = self.tasks, a function from task
\* id to Task, and ids = self.task_ids, the ids in the order the tasks were
\* supplied (the insertion order of the dict).

\* an in-degree that counts no dependency entry
in_degree_none(T, t) == 0

\* lines 31, 34-38: the in-degree of t counts every dependency entry of t
\* that names a task of the manager
in_degree_of(T, t) ==
    Cardinality({i \in 1..Len(T[t].dependencies) : T[t].dependencies[i] \in DOMAIN T})

\* lines 32, 34-38: graph[d], the dependents of d, one entry per dependency
\* entry, in the order of self.tasks.values()
RECURSIVE graph_of(_, _, _)
graph_of(T, ids, d) ==
    IF ids = <<>> THEN <<>>
    ELSE LET t == Head(ids)
             hits == SelectSeq(T[t].dependencies, LAMBDA x : x = d)
         IN  [i \in 1..Len(hits) |-> t] \o graph_of(T, Tail(ids), d)

RECURSIVE relax_nonneg(_, _, _)
relax_nonneg(nbrs, indeg, queue) ==
    IF nbrs = <<>> THEN [indeg |-> indeg, queue |-> queue]
    ELSE LET n == Head(nbrs)
             d == indeg[n] - 1
         IN  relax_nonneg(Tail(nbrs), [indeg EXCEPT ![n] = d],
                          IF d >= 0 THEN Append(queue, n) ELSE queue)

\* lines 48-51: the inner loop over graph[current]
RECURSIVE relax(_, _, _)
relax(nbrs, indeg, queue) ==
    IF nbrs = <<>> THEN [indeg |-> indeg, queue |-> queue]
    ELSE LET n == Head(nbrs)
             d == indeg[n] - 1
         IN  relax(Tail(nbrs), [indeg EXCEPT ![n] = d],
                   IF d = 0 THEN Append(queue, n) ELSE queue)

\* lines 44-51: the loop of Kahn's algorithm, queue.pop(0) first
RECURSIVE kahn(_, _, _, _, _)
kahn(T, ids, queue, indeg, result) ==
    IF queue = <<>> THEN result
    ELSE LET current == Head(queue)
             r == relax(graph_of(T, ids, current), indeg, Tail(queue))
         IN  kahn(T, ids, r.queue, r.indeg, Append(result, current))

\* DAGManager.get_topological_order
get_topological_order(T, ids) ==
    LET indeg == [t \in DOMAIN T |-> in_degree_of(T, t)]
        queue == SelectSeq(ids, LAMBDA t : indeg[t] = 0)
    IN  kahn(T, ids, queue, indeg, <<>>)

\* a ready set that does not look at the status of a task
get_ready_tasks_any_status(T, ids, completed_tasks) ==
    SelectSeq(ids, LAMBDA t : is_ready(T[t], completed_tasks))

\* a ready set of the Pending tasks that have no dependencies at all
get_ready_tasks_roots(T, ids, completed_tasks) ==
    SelectSeq(ids, LAMBDA t : T[t].status = "pending" /\ T[t].dependencies = <<>>)

get_ready_tasks_pending_only(T, ids, completed_tasks) ==
    SelectSeq(ids, LAMBDA t : T[t].status = "pending")

\* DAGManager.get_ready_tasks
get_ready_tasks(T, ids, completed_tasks) ==
    SelectSeq(ids, LAMBDA t : T[t].status = "pending" /\ is_ready(T[t], completed_tasks))

\* DAGManager.get_task: self.tasks.get(task_id), the Task or Python's None
NoTask == [task_id |-> None]
get_task(T, task_id) == IF task_id \in DOMAIN T THEN T[task_id] ELSE NoTask

\* DAGManager.reset_all_tasks
reset_all_tasks(T) == [t \in DOMAIN T |-> task_reset(T[t])]

\* DAGManager.has_cycles, the inner has_cycle(node_id) and its loop over the
\* dependencies.  st = [found, visited, rec_stack]; found is "False" while
\* the search goes on, "True" once a cycle is found, "KeyError" when
\* self.tasks[node_id] is looked up for an id that is no task.
RECURSIVE has_cycle(_, _, _)
RECURSIVE has_cycle_deps(_, _, _)
has_cycle_no_remove(T, node_id, st) ==
    LET st1 == [st EXCEPT !.visited = @ \cup {node_id}, !.rec_stack = @ \cup {node_id}]
    IN  IF node_id \notin DOMAIN T THEN [st1 EXCEPT !.found = "KeyError"]
        ELSE has_cycle_deps(T, T[node_id].dependencies, st1)

has_cycle(T, node_id, st) ==
    LET st1 == [st EXCEPT !.visited = @ \cup {node_id}, !.rec_stack = @ \cup {node_id}]
    IN  IF node_id \notin DOMAIN T THEN [st1 EXCEPT !.found = "KeyError"]
        ELSE LET r == has_cycle_deps(T, T[node_id].dependencies, st1)
             IN  IF r.found # "False" THEN r
                 ELSE [r EXCEPT !.rec_stack = @ \ {node_id}]

has_cycle_deps(T, deps, st) ==
    IF deps = <<>> THEN st
    ELSE LET dep_id == Head(deps)
         IN  IF dep_id \notin st.visited
             THEN LET r == has_cycle(T, dep_id, st)
                  IN  IF r.found # "False" THEN r
                      ELSE has_cycle_deps(T, Tail(deps), r)
             ELSE IF dep_id \in st.rec_stack THEN [st EXCEPT !.found = "True"]
             ELSE has_cycle_deps(T, Tail(deps), st)

\* lines 109-114: the outer loop over self.task_ids
RECURSIVE has_cycles_from(_, _, _)
has_cycles_from(T, ids, st) ==
    IF ids = <<>> THEN st.found
    ELSE IF Head(ids) \in st.visited THEN has_cycles_from(T, Tail(ids), st)
    ELSE LET r == has_cycle(T, Head(ids), st)
         IN  IF r.found # "False" THEN r.found
             ELSE has_cycles_from(T, Tail(ids), r)

\* DAGManager.has_cycles: "True", "False", or "KeyError" when it raises
has_cycles(T, ids) ==
    has_cycles_from(T, ids, [found |-> "False", visited |-> {}, rec_stack |-> {}])

\* ------------------------------------------- the nodes as the trial sees them
\* simulator.py and the two schedulers read and update a node through
\* get_mobility_score, get_reliability_score, get_utility_score,
\* update_trust_on_success and update_trust_on_failure.  fog_node.py defines
\* none of them; they are taken as the spec describes the node: the scores
\* are the fields, the utility the adaptive policy ranks by is the
\* reliability score, and the trust updates are update_trust with the
\* adaptive profile, +0.10 on success and -0.15 on failure.
AdaptiveInc == 2
AdaptiveDec == 3
get_mobility_score(n) == n.mobility_score
get_reliability_score(n) == n.reliability_score
get_utility_score(n) == n.reliability_score
update_trust_on_success(n) == node_update_trust(n, TRUE, AdaptiveInc, AdaptiveDec)
update_trust_on_failure(n) == node_update_trust(n, FALSE, AdaptiveInc, AdaptiveDec)

\* the place of the last largest key
LastMaxIndex(keys) ==
    CHOOSE i \in 1..Len(keys) :
        /\ \A j \in 1..Len(keys) : keys[j] <= keys[i]
        /\ \A j \in (i + 1)..Len(keys) : keys[j] < keys[i]

\* the place of the first largest key in a non-empty list of keys: the
\* element max(list, key=...) returns and the one sorted(list, key=...,
\* reverse=True) puts first (the sort is stable)
FirstMaxIndex(keys) ==
    CHOOSE i \in 1..Len(keys) :
        /\ \A j \in 1..Len(keys) : keys[j] <= keys[i]
        /\ \A j \in 1..(i - 1) : keys[j] < keys[i]

\* next((n for n in nodes if n.node_id == node_id), None): its index, 0 for None
NodeIndexById(q, node_id) ==
    IF \E i \in 1..Len(q) : q[i].node_id = node_id
    THEN CHOOSE i \in 1..Len(q) :
            /\ q[i].node_id = node_id
            /\ \A j \in 1..(i - 1) : q[j].node_id # node_id
    ELSE 0

\* ------------------------------------------------------ scheduler_baseline.py
\* a schedule that ranks the nodes by utility instead of mobility
baseline_schedule_by_utility(T, ids, ns) ==
    LET order == get_topological_order(T, ids)
    IN  IF order = <<>> THEN [error |-> FALSE, schedule |-> <<>>]
        ELSE IF ns = <<>> THEN [error |-> TRUE, schedule |-> <<>>]
        ELSE LET best == ns[FirstMaxIndex([i \in 1..Len(ns) |-> get_utility_score(ns[i])])]
             IN  [error |-> FALSE,
                  schedule |-> [t \in SeqToSet(order) |-> best.node_id]]

\* BaselineScheduler.schedule_tasks: every task of the topological order is
\* given the node that sorts first by mobility score.  "IndexError" when
\* there is a task to schedule and no node (sorted_nodes[0]).
baseline_schedule(T, ids, ns) ==
    LET order == get_topological_order(T, ids)
    IN  IF order = <<>> THEN [error |-> FALSE, schedule |-> <<>>]
        ELSE IF ns = <<>> THEN [error |-> TRUE, schedule |-> <<>>]
        ELSE LET best == ns[FirstMaxIndex([i \in 1..Len(ns) |-> get_mobility_score(ns[i])])]
             IN  [error |-> FALSE,
                  schedule |-> [t \in SeqToSet(order) |-> best.node_id]]

\* ------------------------------------------------------ scheduler_proposed.py
\* a feedback that is applied twice
update_node_trust_twice(ns, node_id, success) ==
    LET i == NodeIndexById(ns, node_id)
    IN  IF i = 0 THEN ns
        ELSE [ns EXCEPT ![i] = IF success
                                THEN update_trust_on_success(update_trust_on_success(ns[i]))
                                ELSE update_trust_on_failure(update_trust_on_failure(ns[i]))]

\* ProposedScheduler.update_node_trust
update_node_trust(ns, node_id, success) ==
    LET i == NodeIndexById(ns, node_id)
    IN  IF i = 0 THEN ns
        ELSE [ns EXCEPT ![i] = IF success THEN update_trust_on_success(ns[i])
                                ELSE update_trust_on_failure(ns[i])]

\* --------------------------------------------------------- scheduler_dmits.py
\* DMITSWeights, in units of 1/100
DmitsMobility == 50
DmitsSocial == 45
DmitsCentrality == 5

\* the spacing of the floating-point values around v: a significand of nine
\* bits, values counted in 1/2048
RECURSIVE ulp(_)
ulp(v) == IF v < 512 THEN 1 ELSE 2 * ulp(v \div 2)

\* the floating-point value of the quotient num / den: the nearest value of
\* the format, a tie going to the even significand. _score works in Python
\* floats; the format is narrowed from 53 bits to nine, the rounding rule kept
fl(num, den) ==
    LET q == ulp(num \div den)
        d == den * q
        k == num \div d
        r == num % d
    IN  IF 2 * r > d \/ (2 * r = d /\ k % 2 = 1) THEN (k + 1) * q ELSE k * q

\* a score from the mobility score the node holds, not recomputed
dmits_score_stored(n, dependency_bonus) ==
    fl(fl((DmitsMobility * n.mobility_score + DmitsSocial * n.social_trust
              + DmitsCentrality * n.centrality) * 128, 125)
          * dependency_bonus, 100)

\* a score in which a bonus above 1.0 multiplies the centrality term alone
dmits_score_bonus_only(n, dependency_bonus) ==
    LET m == compute_mobility_score(n)
    IN  IF dependency_bonus = 100
        THEN fl((DmitsMobility * m.mobility_score + DmitsSocial * m.social_trust
                    + DmitsCentrality * m.centrality) * 128, 125)
        ELSE fl(fl(DmitsCentrality * m.centrality * 128, 125) * dependency_bonus, 100)

\* DMITSScheduler._score: compute_mobility_score() assigns the node's
\* mobility_score; the weighted sum, in 1/(100 * Scale), is a float (counted
\* in 1/2048), and so is its product with the bonus (in 1/100)
dmits_score(n, dependency_bonus) ==
    LET m == compute_mobility_score(n)
    IN  fl(fl((DmitsMobility * m.mobility_score + DmitsSocial * m.social_trust
                  + DmitsCentrality * m.centrality) * 128, 125)
              * dependency_bonus, 100)

\* DMITSScheduler.select_node: the bonus 1.0 + 0.05 * len(task.dependencies),
\* max() over the nodes, whose key function has then run on every node;
\* ValueError on an empty list
dmits_select_node(ns, task) ==
    LET dependency_bonus == 100 + 5 * Len(task.dependencies)
    IN  IF ns = <<>> THEN [error |-> TRUE, nodes |-> ns, index |-> 0]
        ELSE [error |-> FALSE,
              nodes |-> [j \in 1..Len(ns) |-> compute_mobility_score(ns[j])],
              index |-> FirstMaxIndex([j \in 1..Len(ns) |-> dmits_score(ns[j], dependency_bonus)])]

\* a feedback that learns as the adaptive policy does
dmits_on_task_result_learning(ns, node_id, success) ==
    update_node_trust(ns, node_id, success)

\* DMITSScheduler.on_task_result: return
dmits_on_task_result(ns, node_id, success) == ns

\* --------------------------------------------------------------- simulator.py
\* 10000 / (1 + exp(3.0 * (r - 0.25))) rounded, for the reliability r counted
\* in units of 1/RelOne, r = 0 .. RelOne: probabilities are counted in 1/10000
FailureTable ==
    << 6792, 6759, 6726, 6693, 6660, 6626, 6593, 6559, 6525, 6491, 6457, 6422,
       6388, 6353, 6318, 6283, 6248, 6213, 6177, 6142, 6106, 6071, 6035, 5999,
       5963, 5927, 5890, 5854, 5818, 5781, 5744, 5708, 5671, 5634, 5597, 5560,
       5523, 5486, 5449, 5412, 5374, 5337, 5300, 5262, 5225, 5187, 5150, 5112,
       5075, 5037, 5000, 4963, 4925, 4888, 4850, 4813, 4775, 4738, 4700, 4663,
       4626, 4588, 4551, 4514, 4477, 4440, 4403, 4366, 4329, 4292, 4256, 4219,
       4182, 4146, 4110, 4073, 4037, 4001, 3965, 3929, 3894, 3858, 3823, 3787,
       3752, 3717, 3682, 3647, 3612, 3578, 3543, 3509, 3475, 3441, 3407, 3374,
       3340, 3307, 3274, 3241, 3208, 3176, 3143, 3111, 3079, 3047, 3015, 2984,
       2953, 2921, 2891, 2860, 2829, 2799, 2769, 2739, 2709, 2680, 2650, 2621,
       2592, 2564, 2535, 2507, 2479, 2451, 2423, 2396, 2369, 2342, 2315, 2288,
       2262, 2236, 2210, 2184, 2159, 2133, 2108, 2083, 2059, 2034, 2010, 1986,
       1962, 1939, 1915, 1892, 1869, 1847, 1824, 1802, 1780, 1758, 1736, 1715,
       1694, 1673, 1652, 1631, 1611, 1591, 1571, 1551, 1532, 1512, 1493, 1474,
       1455, 1437, 1419, 1400, 1382, 1365, 1347, 1330, 1312, 1295, 1279, 1262,
       1246, 1229, 1213, 1197, 1182, 1166, 1151, 1135, 1120, 1106, 1091, 1076,
       1062, 1048, 1034, 1020, 1007, 993, 980, 967, 953 >>

\* a failure model with a threshold: certain failure below the reliability
\* 0.5, none from there on
failure_probability_threshold(n) ==
    IF get_reliability_score(n) * 2 < RelOne THEN 10000 ELSE 0

\* Simulator._calculate_failure_probability: the logistic model on
\* get_reliability_score, then max(0.0, min(1.0, .))
calculate_failure_probability(n) ==
    LET r == get_reliability_score(n)
        f == FailureTable[Min(Max(r, 0), RelOne) + 1]
    IN  Max(0, Min(10000, f))

\* The generator of the random module, shared by everything in the process:
\* random.seed(s) puts it at the start of the stream of s, random.random()
\* returns the next value of the stream.  The streams are those of CPython
\* for the default seed 42 and for 43, counted in 1/10000 and rounded down.
DefaultSeed == 42
RandomStream(s) ==
    IF s = DefaultSeed THEN <<6394, 250, 2750, 2232, 7364, 6766, 8921, 869>>
    ELSE <<385, 6962, 1439, 4625, 6716, 7929, 4531, 4982>>
random_seed(s) == [seed |-> s, pos |-> 0]
random_random(g) == RandomStream(g.seed)[g.pos + 1]
\* a generator that hands out its value without moving on
random_reuse(g) == g
random_advance(g) == [g EXCEPT !.pos = @ + 1]

\* an execution time that the speed of the node does not shorten
unscaled_time(execution_time, speed) == execution_time

\* execution_time * 1.0 / (1.0 + speed / 100.0), exact for the speeds used
scaled_time(execution_time, speed) == (execution_time * 100) \div (100 + speed)

\* a selection that ranks the nodes by the reliability they were built with
best_node_initial(ns) == FirstMaxIndex([j \in 1..Len(ns) |-> ns[j].initial_reliability])

\* simulate_proposed line 175: max(self.nodes, key=lambda n: n.get_utility_score()),
\* as the place of the node in the list
best_node(ns) == FirstMaxIndex([j \in 1..Len(ns) |-> get_utility_score(ns[j])])

\* ======================================================== state
VARIABLES
    fn,        \* node spec: the FogNode objects, "orig" and (once cloned) "clone"
    obj,       \* node spec: which object each of the two names refers to
    pol,       \* node spec: the policy's weights <<trust_weight, mobility_weight>>
    nops,      \* node spec: operations applied so far
    last,      \* node spec: the last operation applied, with its arguments
    tasks,     \* DAGManager.tasks: task id -> Task
    task_ids,  \* DAGManager.task_ids: the ids in the order supplied
    res,       \* graph specs: the last query made of the DAGManager and its result
    policy,    \* trial: "baseline" (simulate_baseline) or "proposed" (simulate_proposed)
    pc,        \* trial: position in the simulate function
    nodes,     \* trial: Simulator.nodes, a list of FogNode
    schedule,  \* trial: the baseline schedule, task id -> node id
    current_time,     \* trial: the simulated clock, in half seconds
    completed_tasks,  \* trial: the set completed_tasks
    ready,     \* trial: what is left of ready_tasks in the for loop
    cur,       \* trial: the task being executed and the index of its node
    attempts,  \* trial: task id -> execution attempts made
    ret,       \* trial: the tuple returned
    seed,      \* trial: Simulator.seed
    rng,       \* the state of the random module's generator, one for the process
    log,       \* trial: the attempts of the run, in order
    prev       \* trial: the earlier run made on the same Simulator, if any

nodeVars == <<fn, obj, pol, nops, last>>
dagVars == <<tasks, task_ids, res>>
runVars == <<seed, rng, log, prev>>
trialVars == <<policy, pc, nodes, schedule, current_time, completed_tasks, ready, cur, attempts, ret, runVars>>
vars == <<fn, obj, pol, nops, last, tasks, task_ids, res, policy, pc, nodes, schedule, current_time, completed_tasks, ready, cur, attempts, ret, seed, rng, log, prev>>

NoOp == [op |-> "construct", who |-> "orig", success |-> FALSE,
         inc |-> 0, dec |-> 0, before |-> 0]
NoRes == [op |-> "none", order |-> <<>>, val |-> "", completed |-> {}, key |-> 0]

\* the variables of a specification that is not running
NodeIdle == fn = <<>> /\ obj = <<>> /\ pol = <<DefaultTW, DefaultMW>> /\ nops = 0 /\ last = NoOp
DagIdle == tasks = <<>> /\ task_ids = <<>> /\ res = NoRes
NoCur == [task |-> 0, node |-> 0, outcome |-> "none"]
NoRun == <<>>
TrialIdle ==
    /\ policy = "none" /\ pc = "idle" /\ nodes = <<>> /\ schedule = <<>>
    /\ current_time = 0 /\ completed_tasks = {} /\ ready = <<>>
    /\ cur = NoCur /\ attempts = <<>> /\ ret = <<>>
    /\ seed = 0 /\ rng = [seed |-> 0, pos |-> 0] /\ log = <<>> /\ prev = NoRun

\* ------------------------------------------------ the node specification
\* weight pairs: non-negative, summing to 1.0
WeightPairs == {<<5, 5>>, <<7, 3>>, <<10, 0>>, <<0, 10>>}
\* (inc, dec) pairs: FogNode's defaults, the adaptive scheduler's 0.10/0.15,
\* and a step larger than the whole range
IncDecPairs == {<<DefaultInc, DefaultDec>>, <<2, 3>>, <<Scale + 5, Scale + 5>>}
RawTrust == {0 - 3, 10, Scale + 3}
RawMobility == {8, Scale + 5}

NodeInit ==
    /\ \E t \in RawTrust, m \in RawMobility, tm \in {"fixture", "sticky"},
          sp \in {<<30, "">>, <<100, "MEDIUM">>} :
          fn = [w \in {"orig"} |->
                  NewFogNode(1, sp[1], t, m, RelOne \div 2, tm, Clamp01(t), 10,
                             sp[2], 4, 1)]
    /\ obj = [w \in {"orig"} |-> 1]
    /\ pol \in WeightPairs
    /\ nops = 0
    /\ last = NoOp
    /\ DagIdle
    /\ TrialIdle

UpdateTrust(w, success, inc, dec) ==
    /\ nops < MaxOps
    /\ w \in DOMAIN fn
    /\ fn' = [v \in DOMAIN fn |-> IF obj[v] = obj[w] THEN node_update_trust(fn[v], success, inc, dec) ELSE fn[v]]
    /\ last' = [op |-> "update_trust", who |-> w, success |-> success,
                inc |-> inc, dec |-> dec, before |-> fn[w].trust_score]
    /\ nops' = nops + 1
    /\ UNCHANGED <<obj, pol, dagVars, trialVars>>

ComputeMobility(w) ==
    /\ nops < MaxOps
    /\ w \in DOMAIN fn
    /\ fn' = [v \in DOMAIN fn |-> IF obj[v] = obj[w] THEN compute_mobility_score(fn[v]) ELSE fn[v]]
    /\ last' = [NoOp EXCEPT !.op = "compute_mobility_score", !.who = w,
                            !.before = fn[w].mobility_score]
    /\ nops' = nops + 1
    /\ UNCHANGED <<obj, pol, dagVars, trialVars>>

ComputeReliability(w) ==
    /\ nops < MaxOps
    /\ w \in DOMAIN fn
    /\ fn' = [v \in DOMAIN fn |-> IF obj[v] = obj[w] THEN compute_reliability(fn[v], pol[1], pol[2]) ELSE fn[v]]
    /\ last' = [NoOp EXCEPT !.op = "compute_reliability", !.who = w,
                            !.before = fn[w].reliability_score]
    /\ nops' = nops + 1
    /\ UNCHANGED <<obj, pol, dagVars, trialVars>>

Reset(w) ==
    /\ nops < MaxOps
    /\ w \in DOMAIN fn
    /\ fn' = [v \in DOMAIN fn |-> IF obj[v] = obj[w] THEN node_reset(fn[v]) ELSE fn[v]]
    /\ last' = [NoOp EXCEPT !.op = "reset", !.who = w,
                            !.before = fn[w].trust_score]
    /\ nops' = nops + 1
    /\ UNCHANGED <<obj, pol, dagVars, trialVars>>

\* clone() of the original; the copy is kept as "clone"
Clone ==
    /\ nops < MaxOps
    /\ LET c == clone_into(fn, obj)
       IN  fn' = c.fn /\ obj' = c.obj
    /\ last' = [NoOp EXCEPT !.op = "clone", !.who = "clone",
                            !.before = fn["orig"].trust_score]
    /\ nops' = nops + 1
    /\ UNCHANGED <<pol, dagVars, trialVars>>

NodeNext ==
    \/ \E w \in {"orig", "clone"}, s \in BOOLEAN, p \in IncDecPairs :
          UpdateTrust(w, s, p[1], p[2])
    \/ \E w \in {"orig", "clone"} : ComputeMobility(w)
    \/ \E w \in {"orig", "clone"} : ComputeReliability(w)
    \/ \E w \in {"orig", "clone"} : Reset(w)
    \/ Clone

SpecNode == NodeInit /\ [][NodeNext]_vars

\* ------------------------------------------------ claims on the node
\* C8: after any sequence of update_trust calls (any non-negative inc/dec),
\* and of the other node operations, trust_score of every node is in [0,1].
C8_TrustInUnitInterval ==
    \A w \in DOMAIN fn : fn[w].trust_score >= 0 /\ fn[w].trust_score <= Scale

\* a success whose increment would have passed 1.0 left trust at exactly 1.0,
\* on a node that had already taken a failure
C8_Witness ==
    /\ last.op = "update_trust" /\ last.success
    /\ last.before + last.inc > Scale
    /\ fn[last.who].trust_score = Scale
    /\ fn[last.who].failures > fn[last.who].past_failure

\* C9: reliability_score of every node is in [0,1] in every state reached by
\* construction, update_trust, compute_mobility_score, compute_reliability
\* with non-negative weights summing to 1, reset and clone.
C9_ReliabilityInUnitInterval ==
    \A w \in DOMAIN fn :
        fn[w].reliability_score >= 0 /\ fn[w].reliability_score <= RelOne

\* compute_reliability with unequal weights on a node whose trust and
\* mobility are both 1.0 stored exactly 1.0
C9_Witness ==
    /\ last.op = "compute_reliability"
    /\ pol[1] > pol[2] /\ pol[2] > 0
    /\ fn[last.who].trust_score = Scale
    /\ fn[last.who].mobility_score = Scale
    /\ fn[last.who].reliability_score = RelOne

\* C10 (as claimed): after any sequence of node operations under a policy
\* with weights (tw, mw), reliability_score = tw * trust_score +
\* mw * mobility_score for the current trust_score and mobility_score.
C10_ReliabilityIsPolicyFunction ==
    nops > 0 =>
        \A w \in DOMAIN fn :
            fn[w].reliability_score =
                pol[1] * fn[w].trust_score + pol[2] * fn[w].mobility_score

\* C23: every call of update_trust, compute_mobility_score,
\* compute_reliability or reset on the clone leaves every field of the
\* original as it was, and every such call on the original leaves every
\* field of the clone as it was; and clone() itself leaves the original
\* as it was.
C23_CloneIndependent ==
    [][ nops' = nops + 1 =>
          \A v \in DOMAIN fn : v # last'.who => fn'[v] = fn[v] ]_vars

\* the clone has been updated by a failure and then reset, and the original
\* still has the trust it had, which is not the clone's trust before the reset
C23_Witness ==
    /\ DOMAIN fn = {"orig", "clone"}
    /\ last.op = "update_trust" /\ last.who = "clone" /\ ~last.success
    /\ fn["clone"].trust_score < last.before
    /\ fn["orig"].trust_score = last.before
    /\ fn["orig"].failures = fn["orig"].past_failure

\* C30: update_trust(success, inc, dec) puts trust_score at the old trust
\* plus inc on success, minus dec on failure, clamped to [0, 1]; adds one
\* to successes on success and to failures on failure and leaves the other
\* counter; leaves mobility_score, speed, social_trust and centrality; and
\* leaves reliability_score at the value compute_reliability() gives for
\* the new trust.
C30_UpdateTrustEffects ==
    [][ (nops' = nops + 1 /\ last'.op = "update_trust") =>
          LET old == fn[last'.who]
              new == fn'[last'.who]
              raw == IF last'.success THEN old.trust_score + last'.inc
                     ELSE old.trust_score - last'.dec
          IN  /\ new.trust_score = Max(0, Min(Scale, raw))
              /\ new.successes = old.successes + (IF last'.success THEN 1 ELSE 0)
              /\ new.failures = old.failures + (IF last'.success THEN 0 ELSE 1)
              /\ new.mobility_score = old.mobility_score
              /\ new.speed = old.speed
              /\ new.social_trust = old.social_trust
              /\ new.centrality = old.centrality
              /\ new.reliability_score
                    = DefaultTW * new.trust_score + DefaultMW * new.mobility_score ]_vars

\* a failure has been reported to a node under the policy that puts all
\* weight on trust: trust went down by dec, the failure was counted, and
\* the reliability is the even mix of the new trust and the mobility score
C30_Witness ==
    /\ last.op = "update_trust" /\ ~last.success
    /\ pol = <<10, 0>>
    /\ fn[last.who].trust_score = last.before - last.dec
    /\ fn[last.who].failures = fn[last.who].past_failure + 1
    /\ fn[last.who].successes = fn[last.who].past_success
    /\ fn[last.who].mobility_score # fn[last.who].trust_score
    /\ fn[last.who].reliability_score
          = DefaultTW * fn[last.who].trust_score + DefaultMW * fn[last.who].mobility_score

\* C22 (as claimed): reset() on a node, the original or a clone taken
\* after updates, leaves trust_score, mobility_score and reliability_score
\* at the values the node was built with from the dataset, which are the
\* initial metrics of the original.
C22_ResetRestoresDataset ==
    last.op = "reset" =>
        /\ fn[last.who].trust_score = fn["orig"].initial_trust
        /\ fn[last.who].mobility_score = fn["orig"].initial_mobility
        /\ fn[last.who].reliability_score = fn["orig"].initial_reliability

\* ------------------------------------------------ the graph specification
\* Task sets: tasks 1..n, their dependency lists built from at most MaxEdges
\* dependency entries (task, dependency id); a dependency id is a task id or
\* n + 1, which is no task.  A list may name an id twice or name its own task.
DepsFromEdges(es, t) ==
    LET mine == SelectSeq(es, LAMBDA e : e[1] = t)
    IN  [i \in 1..Len(mine) |-> mine[i][2]]

DepMaps(n) ==
    { [t \in 1..n |-> DepsFromEdges(es, t)] :
        es \in UNION { [1..k -> (1..n) \X (1..(n + 1))] : k \in 0..MaxEdges } }

\* the orders in which n tasks can be supplied
Orders(n) == { p \in [1..n -> 1..n] : \A i, j \in 1..n : p[i] = p[j] => i = j }

\* execution_time of task t, in half seconds
ExecTimeOf(t) == 2 * t

MakeTasks(n, deps, max_retries) ==
    [t \in 1..n |-> NewTask(t, ExecTimeOf(t), deps[t], max_retries)]

\* DAGManager.__init__ on freshly built tasks
DagInit ==
    /\ \E n \in 1..NTasks : \E deps \in DepMaps(n), p \in Orders(n) :
          /\ tasks = MakeTasks(n, deps, DefaultMaxRetries)
          /\ task_ids = p
    /\ res = NoRes
    /\ NodeIdle
    /\ TrialIdle

TopologicalOrder ==
    /\ res.op = "none"
    /\ res' = [NoRes EXCEPT !.op = "get_topological_order",
                            !.order = get_topological_order(tasks, task_ids)]
    /\ UNCHANGED <<tasks, task_ids, nodeVars, trialVars>>

HasCycles ==
    /\ res.op = "none"
    /\ res' = [NoRes EXCEPT !.op = "has_cycles", !.val = has_cycles(tasks, task_ids)]
    /\ UNCHANGED <<tasks, task_ids, nodeVars, trialVars>>

\* get_task for an id of the graph or for one that is no task
GetTask(task_id) ==
    /\ res.op = "none"
    /\ res' = [NoRes EXCEPT !.op = "get_task", !.key = task_id,
                            !.val = IF get_task(tasks, task_id) = NoTask
                                    THEN "None" ELSE "Task"]
    /\ UNCHANGED <<tasks, task_ids, nodeVars, trialVars>>

DagNext ==
    \/ TopologicalOrder
    \/ HasCycles
    \/ \E task_id \in 1..(NTasks + 1) : GetTask(task_id)

SpecDag == DagInit /\ [][DagNext]_vars

\* --- what the claims speak of, defined on the task set alone
DepSet(T, t) == SeqToSet(T[t].dependencies)
AllDepsKnown(T) == \A t \in DOMAIN T : DepSet(T, t) \subseteq DOMAIN T

\* the tasks t depends on, directly or through other tasks
RECURSIVE Ancestors(_, _, _)
Ancestors(T, S, k) ==
    IF k = 0 THEN S
    ELSE Ancestors(T, S \cup UNION { DepSet(T, u) \cap DOMAIN T : u \in S }, k - 1)
DependsOn(T, t) ==
    Ancestors(T, DepSet(T, t) \cap DOMAIN T, Cardinality(DOMAIN T))
Acyclic(T) == \A t \in DOMAIN T : t \notin DependsOn(T, t)

PosIn(q, x) == CHOOSE i \in 1..Len(q) : q[i] = x
Prefix(q, k) == { q[i] : i \in 1..k }

\* ------------------------------------------------ claims on the graph
\* C3: for an acyclic task set whose dependencies all name tasks of the set,
\* get_topological_order returns every task id exactly once and places
\* every task after all of its dependencies.
C3_TopologicalOrderValid ==
    (res.op = "get_topological_order" /\ AllDepsKnown(tasks) /\ Acyclic(tasks)) =>
        /\ Len(res.order) = Cardinality(DOMAIN tasks)
        /\ SeqToSet(res.order) = DOMAIN tasks
        /\ \A t \in DOMAIN tasks : \A d \in DepSet(tasks, t) :
              PosIn(res.order, d) < PosIn(res.order, t)

\* an order was computed for three tasks supplied out of id order, one of
\* them depending on the two others, which come later in the supply order
C3_Witness ==
    /\ res.op = "get_topological_order" /\ AllDepsKnown(tasks) /\ Acyclic(tasks)
    /\ \E t \in DOMAIN tasks :
          /\ Cardinality(DepSet(tasks, t)) = 2
          /\ task_ids[1] = t
          /\ res.order[Len(res.order)] = t

\* the tasks that are ready after the first k emissions of the order q:
\* not yet emitted, every dependency emitted
ReadyAfter(T, q, k) ==
    { t \in DOMAIN T \ Prefix(q, k) : (DepSet(T, t) \cap DOMAIN T) \subseteq Prefix(q, k) }

\* C4 (as claimed): whenever several tasks are ready together, the one with
\* the smallest id is emitted next, whatever the order of supply.
C4_SmallestIdFirst ==
    (res.op = "get_topological_order" /\ AllDepsKnown(tasks) /\ Acyclic(tasks)) =>
        \A k \in 1..Len(res.order) :
            \A t \in ReadyAfter(tasks, res.order, k - 1) : res.order[k] <= t

\* C5: has_cycles returns True for every task set with a dependency cycle
\* (the two tasks depending on each other among them) and False for every
\* acyclic one, the dependencies all naming tasks of the set.
C5_HasCyclesExact ==
    (res.op = "has_cycles" /\ AllDepsKnown(tasks)) =>
        res.val = (IF Acyclic(tasks) THEN "False" ELSE "True")

\* the two-task set in which 1 depends on 2 and 2 on 1 was found cyclic
C5_Witness ==
    /\ res.op = "has_cycles" /\ res.val = "True"
    /\ DOMAIN tasks = {1, 2}
    /\ tasks[1].dependencies = <<2>> /\ tasks[2].dependencies = <<1>>

\* C21 (as claimed): get_task for an id that is not in the graph does not
\* return a value; it signals a "task not found" error.
C21_UnknownTaskSignalled ==
    (res.op = "get_task" /\ res.key \notin DOMAIN tasks) => res.val = "TaskNotFound"

\* ------------------------------------------------ the readiness specification
\* Tasks of a DAGManager go through their life cycle one method call at a
\* time (assign_to_node, then mark_completed or mark_failed; reset_all_tasks
\* at any time), and get_ready_tasks is asked with any set of ids.
Ascending(n) == [i \in 1..n |-> i]
Descending(n) == [i \in 1..n |-> n + 1 - i]

ReadyInit ==
    /\ \E n \in 1..NReadyTasks : \E deps \in DepMaps(n), p \in {Ascending(n), Descending(n)} :
          /\ tasks = MakeTasks(n, deps, DefaultMaxRetries)
          /\ task_ids = p
    /\ res = NoRes
    /\ NodeIdle
    /\ TrialIdle

AssignToNode(t) ==
    /\ tasks[t].status = "pending"
    /\ tasks' = [tasks EXCEPT ![t] = assign_to_node(tasks[t], 1)]
    /\ res' = NoRes
    /\ UNCHANGED <<task_ids, nodeVars, trialVars>>

MarkCompleted(t) ==
    /\ tasks[t].status = "running"
    /\ tasks' = [tasks EXCEPT ![t] = mark_completed(tasks[t], 1)]
    /\ res' = NoRes
    /\ UNCHANGED <<task_ids, nodeVars, trialVars>>

MarkFailed(t) ==
    /\ tasks[t].status = "running"
    /\ tasks' = [tasks EXCEPT ![t] = mark_failed(tasks[t])]
    /\ res' = NoRes
    /\ UNCHANGED <<task_ids, nodeVars, trialVars>>

ResetAllTasks ==
    /\ \E t \in DOMAIN tasks : tasks[t].status # "pending"
    /\ tasks' = reset_all_tasks(tasks)
    /\ res' = [NoRes EXCEPT !.op = "reset_all_tasks"]
    /\ UNCHANGED <<task_ids, nodeVars, trialVars>>

GetReadyTasks(c) ==
    /\ res.op = "none"
    /\ res' = [NoRes EXCEPT !.op = "get_ready_tasks", !.completed = c,
                            !.order = get_ready_tasks(tasks, task_ids, c)]
    /\ UNCHANGED <<tasks, task_ids, nodeVars, trialVars>>

ReadyNext ==
    \/ \E t \in DOMAIN tasks : AssignToNode(t)
    \/ \E t \in DOMAIN tasks : MarkCompleted(t)
    \/ \E t \in DOMAIN tasks : MarkFailed(t)
    \/ ResetAllTasks
    \/ \E c \in SUBSET (1..(Len(task_ids) + 1)) : GetReadyTasks(c)

SpecReady == ReadyInit /\ [][ReadyNext]_vars

\* C2: get_ready_tasks(completed) returns exactly the tasks whose status is
\* Pending and whose every dependency id is in completed, each once; with
\* an empty completed set, exactly the Pending tasks with no dependencies.
C2_ReadyExact ==
    res.op = "get_ready_tasks" =>
        /\ SeqToSet(res.order) =
              { t \in DOMAIN tasks : /\ tasks[t].status = "pending"
                                     /\ DepSet(tasks, t) \subseteq res.completed }
        /\ Len(res.order) = Cardinality(SeqToSet(res.order))
        /\ res.completed = {} =>
              SeqToSet(res.order) =
                { t \in DOMAIN tasks : /\ tasks[t].status = "pending"
                                       /\ tasks[t].dependencies = <<>> }

\* asked with a set holding one of the two dependencies of a Pending task
\* and the id of a Completed task: the Pending task is not returned
C2_Witness ==
    /\ res.op = "get_ready_tasks"
    /\ \E t, u \in DOMAIN tasks :
          /\ tasks[t].status = "pending"
          /\ Cardinality(DepSet(tasks, t)) = 2
          /\ Cardinality(DepSet(tasks, t) \cap res.completed) = 1
          /\ t \notin SeqToSet(res.order)
          /\ tasks[u].status = "completed" /\ u \in res.completed

\* the tasks on a cycle of dependencies, and those that depend on one
OnCycle(T) == { t \in DOMAIN T : t \in DependsOn(T, t) }
BehindCycle(T) == { t \in DOMAIN T : DependsOn(T, t) \cap OnCycle(T) # {} }

\* C37: for a task set whose dependencies all name tasks of the set, the
\* order get_topological_order returns holds every task id exactly when
\* has_cycles returns False; the ids it leaves out are exactly the tasks on
\* a cycle and the tasks that depend on one; and no id is in it twice.
C37_OrderCompleteIffNoCycle ==
    (res.op = "get_topological_order" /\ AllDepsKnown(tasks)) =>
        /\ (SeqToSet(res.order) = DOMAIN tasks) <=> (has_cycles(tasks, task_ids) = "False")
        /\ DOMAIN tasks \ SeqToSet(res.order) = OnCycle(tasks) \cup BehindCycle(tasks)
        /\ Len(res.order) = Cardinality(SeqToSet(res.order))

\* the order of three tasks, one that depends on itself, one that depends
\* on that one, and one without dependencies: only the last is returned
C37_Witness ==
    /\ res.op = "get_topological_order" /\ AllDepsKnown(tasks)
    /\ has_cycles(tasks, task_ids) = "True"
    /\ \E t, u, v \in DOMAIN tasks :
          /\ tasks[t].dependencies = <<t>>
          /\ tasks[u].dependencies = <<t>> /\ u # t
          /\ tasks[v].dependencies = <<>>
          /\ res.order = <<v>>

\* C32: reset_all_tasks, called with tasks Running, Completed or Failed
\* among them, leaves every task Pending with assigned_node, start_time and
\* finish_time None and retry_count 0, and with the task_id,
\* execution_time, dependencies and max_retries it had.
C32_ResetAllTasksEffects ==
    [][ res'.op = "reset_all_tasks" =>
          /\ DOMAIN tasks' = DOMAIN tasks
          /\ \A t \in DOMAIN tasks :
                /\ tasks'[t].status = "pending"
                /\ tasks'[t].assigned_node = None
                /\ tasks'[t].start_time = None
                /\ tasks'[t].finish_time = None
                /\ tasks'[t].retry_count = 0
                /\ tasks'[t].task_id = tasks[t].task_id
                /\ tasks'[t].execution_time = tasks[t].execution_time
                /\ tasks'[t].dependencies = tasks[t].dependencies
                /\ tasks'[t].max_retries = tasks[t].max_retries ]_vars

\* reset_all_tasks has run on two tasks, the second depending on the first
C32_Witness ==
    /\ res.op = "reset_all_tasks"
    /\ DOMAIN tasks = 1..2
    /\ tasks[2].dependencies = <<1>>
    /\ \A t \in DOMAIN tasks : tasks[t].status = "pending" /\ tasks[t].finish_time = None

\* ------------------------------------------------ the trial specification
\* One call of simulate_baseline or simulate_proposed on a Simulator built
\* from a node list and a task list.
\* The nodes: "steady" and "mobile" have the same reliability 0.6, one from
\* trust and one from mobility; "weak" has reliability 0.15.  "stale" is
\* built with the mobility score 1.0 while the stay probability of its
\* state is 0.4.  "near" and "nearer" stay with probability 1.0 and differ
\* in centrality alone, 0.5 and 0.55.
MakeNode(kind, node_id) ==
    IF kind = "steady" THEN NewFogNode(node_id, 100, 16, 8, 0, "fixture", 16, 10, "", 4, 1)
    ELSE IF kind = "stale" THEN NewFogNode(node_id, 100, 14, 20, 0, "fixture", 14, 10, "", 2, 2)
    ELSE IF kind = "near" THEN NewFogNode(node_id, 100, 20, 20, 0, "sticky", 20, 10, "", 5, 0)
    ELSE IF kind = "nearer" THEN NewFogNode(node_id, 100, 20, 20, 0, "sticky", 20, 11, "", 5, 0)
    ELSE IF kind = "mobile" THEN NewFogNode(node_id, 0, 6, 18, 0, "fixture", 6, 10, "", 3, 7)
    ELSE NewFogNode(node_id, 0, 2, 4, 0, "fixture", 2, 10, "", 1, 4)

\* the node lists: runs of up to NNodes kinds taken from the roster, from
\* any place in it, node ids 1, 2, ...
Roster == <<"steady", "mobile", "weak">>
RosterAt(r, i, dir) == Roster[((r - 1 + dir * (i - 1) + Len(Roster) * NNodes) % Len(Roster)) + 1]
NodeLists ==
    { [i \in 1..k |-> MakeNode(RosterAt(r, i, 1), i)] :
        k \in 0..NNodes, r \in 1..Len(Roster) }

\* dependency lists without repeated entries, in ascending order: the task
\* sets of the trials
AscendingList(S) ==
    [i \in 1..Cardinality(S) |-> CHOOSE x \in S : Cardinality({y \in S : y < x}) = i - 1]
DepSetMaps(n) ==
    { [t \in 1..n |-> AscendingList({e[2] : e \in {f \in es : f[1] = t}})] :
        es \in { E \in SUBSET ((1..n) \X (1..(n + 1))) : Cardinality(E) <= MaxEdges } }

\* the values random.random() takes: 0.0, which is above no failure
\* probability; 0.35, which is above the failure probability of a
\* reliability over 0.456; 0.9999, which is above every failure probability
DrawLevels == {0, 3500, 9999}

\* Simulator.__init__, with fresh tasks
TrialInit ==
    /\ \E n \in 1..NTasks : \E deps \in DepSetMaps(n), mr \in {0, DefaultMaxRetries} :
          /\ tasks = MakeTasks(n, deps, mr)
          /\ task_ids = Ascending(n)
    /\ res = NoRes
    /\ nodes \in NodeLists
    /\ policy \in {"baseline", "proposed"}
    /\ pc = "start"
    /\ schedule = <<>>
    /\ current_time = 0
    /\ completed_tasks = {}
    /\ ready = <<>>
    /\ cur = NoCur
    /\ attempts = [t \in DOMAIN tasks |-> 0]
    /\ ret = <<>>
    /\ seed = DefaultSeed
    /\ rng = random_seed(seed)
    /\ log = <<>>
    /\ prev = NoRun
    /\ NodeIdle

\* simulate_baseline lines 78-90: seed, reset_all_tasks, the scheduler and
\* its schedule (which also writes assigned_node), clock and completed set
SetupBaseline ==
    /\ pc = "start" /\ policy = "baseline"
    /\ LET T0 == reset_all_tasks(tasks)
           sch == baseline_schedule(T0, task_ids, nodes)
       IN  IF sch.error
           THEN /\ pc' = "error"
                /\ tasks' = T0
                /\ UNCHANGED schedule
           ELSE /\ pc' = "loop"
                /\ schedule' = sch.schedule
                /\ tasks' = [t \in DOMAIN T0 |->
                               IF t \in DOMAIN sch.schedule
                               THEN [T0[t] EXCEPT !.assigned_node = sch.schedule[t]]
                               ELSE T0[t]]
    /\ current_time' = 0
    /\ completed_tasks' = {}
    /\ rng' = random_seed(seed)
    /\ log' = <<>>
    /\ UNCHANGED <<task_ids, res, policy, nodes, ready, cur, attempts, ret, seed, prev, nodeVars>>

\* simulate_proposed lines 148-159
SetupProposed ==
    /\ pc = "start" /\ policy = "proposed"
    /\ tasks' = reset_all_tasks(tasks)
    /\ pc' = "loop"
    /\ current_time' = 0
    /\ completed_tasks' = {}
    /\ rng' = random_seed(seed)
    /\ log' = <<>>
    /\ UNCHANGED <<task_ids, res, policy, nodes, schedule, ready, cur, attempts, ret, seed, prev, nodeVars>>

\* a result that counts every task that is no longer Pending
TrialResultFinished(T, time) ==
    <<time, Cardinality({t \in DOMAIN T : T[t].status # "pending"}), Cardinality(DOMAIN T)>>

\* lines 127-131 / 204-208: the tuple returned
TrialResult(T, time) ==
    <<time, Cardinality({t \in DOMAIN T : T[t].status = "completed"}), Cardinality(DOMAIN T)>>

\* lines 92-96 / 161-165: the while condition, the ready set, the break; a
\* loop that is left returns
PassStart ==
    /\ pc = "loop"
    /\ LET rt == get_ready_tasks(tasks, task_ids, completed_tasks)
       IN  IF Cardinality(completed_tasks) < Cardinality(DOMAIN tasks) /\ rt # <<>>
           THEN /\ pc' = "exec"
                /\ ready' = rt
                /\ UNCHANGED ret
           ELSE /\ pc' = "done"
                /\ ready' = <<>>
                /\ ret' = TrialResult(tasks, current_time)
    /\ cur' = NoCur
    /\ UNCHANGED <<tasks, task_ids, res, policy, nodes, schedule, current_time, completed_tasks, attempts, runVars, nodeVars>>

\* where the for loop goes after a task: the next ready task or the while
AfterTask(rest) == IF rest = <<>> THEN "loop" ELSE "exec"

\* baseline lines 99-106: the next ready task, its scheduled node,
\* assign_to_node; a task that is not Pending or has no node is passed over
AssignBaseline ==
    /\ pc = "exec" /\ policy = "baseline" /\ ready # <<>>
    /\ LET task_id == Head(ready)
           node_id == IF task_id \in DOMAIN schedule THEN schedule[task_id] ELSE None
           i == IF node_id = None THEN 0 ELSE NodeIndexById(nodes, node_id)
       IN  IF tasks[task_id].status = "pending" /\ i # 0
           THEN /\ tasks' = [tasks EXCEPT ![task_id] = assign_to_node(@, node_id)]
                /\ cur' = [task |-> task_id, node |-> i, outcome |-> "none"]
                /\ pc' = "run"
                /\ UNCHANGED ready
           ELSE /\ ready' = Tail(ready)
                /\ pc' = AfterTask(Tail(ready))
                /\ UNCHANGED <<tasks, cur>>
    /\ UNCHANGED <<task_ids, res, policy, nodes, schedule, current_time, completed_tasks, attempts, ret, runVars, nodeVars>>

\* proposed lines 169-178: the next ready task, the node with the largest
\* utility at this moment, assign_to_node; max() of no nodes raises
AssignProposed ==
    /\ pc = "exec" /\ policy = "proposed" /\ ready # <<>>
    /\ LET task_id == Head(ready)
       IN  IF tasks[task_id].status # "pending"
           THEN /\ ready' = Tail(ready)
                /\ pc' = AfterTask(Tail(ready))
                /\ UNCHANGED <<tasks, cur>>
           ELSE IF nodes = <<>>
           THEN /\ pc' = "error"
                /\ UNCHANGED <<tasks, cur, ready>>
           ELSE LET i == best_node(nodes)
                IN  /\ tasks' = [tasks EXCEPT ![task_id] = assign_to_node(@, nodes[i].node_id)]
                    /\ cur' = [task |-> task_id, node |-> i, outcome |-> "none"]
                    /\ pc' = "run"
                    /\ UNCHANGED ready
    /\ UNCHANGED <<task_ids, res, policy, nodes, schedule, current_time, completed_tasks, attempts, ret, runVars, nodeVars>>

\* a failed task that goes back to Pending without any count
task_back_to_pending(task) == [task EXCEPT !.status = "pending"]

\* lines 118-125 / 191-202: what the code does with the task after a failed
\* draw
task_after_failure(task) == mark_failed(task)

\* lines 108-125 / 183-202: the scaled time, the failure probability, one
\* draw, and the two branches; the adaptive trial also updates the node
Execute(draw) ==
    /\ pc = "run"
    /\ LET task_id == cur.task
           node == nodes[cur.node]
           execution_time == scaled_time(tasks[task_id].execution_time, node.speed)
           failure_prob == calculate_failure_probability(node)
           success == draw > failure_prob
       IN  /\ IF success
              THEN /\ current_time' = current_time + execution_time
                   /\ tasks' = [tasks EXCEPT ![task_id] =
                                    mark_completed(@, current_time + execution_time)]
                   /\ completed_tasks' = completed_tasks \cup {task_id}
              ELSE /\ tasks' = [tasks EXCEPT ![task_id] = task_after_failure(@)]
                   /\ UNCHANGED <<current_time, completed_tasks>>
           /\ nodes' = IF policy = "proposed"
                       THEN update_node_trust(nodes, node.node_id, success)
                       ELSE nodes
           /\ cur' = [cur EXCEPT !.outcome = IF success THEN "success" ELSE "failure"]
           /\ attempts' = [attempts EXCEPT ![task_id] = @ + 1]
           /\ log' = Append(log, [task |-> task_id, node |-> node.node_id,
                                  success |-> success,
                                  time |-> IF success THEN current_time + execution_time
                                           ELSE current_time,
                                  reliability |-> get_reliability_score(node)])
    /\ rng' = random_advance(rng)
    /\ ready' = Tail(ready)
    /\ pc' = AfterTask(Tail(ready))
    /\ UNCHANGED <<task_ids, res, policy, schedule, ret, seed, prev, nodeVars>>

TrialNext ==
    \/ SetupBaseline
    \/ SetupProposed
    \/ PassStart
    \/ AssignBaseline
    \/ AssignProposed
    \/ \E draw \in DrawLevels : Execute(draw)

SpecTrial == TrialInit /\ [][TrialNext]_vars

\* The simulate function is one sequential call: it keeps taking steps
\* until it returns or raises.  Termination is checked for the smaller task
\* sets and for node lists that start the roster; the draws are open, and
\* the draw levels give both outcomes on every node.
FairInit ==
    /\ \E n \in 1..NReadyTasks : \E deps \in DepSetMaps(n) :
          /\ tasks = MakeTasks(n, deps, DefaultMaxRetries)
          /\ task_ids = Ascending(n)
    /\ res = NoRes
    /\ \E k \in 0..NNodes : nodes = [i \in 1..k |-> MakeNode(RosterAt(1, i, 1), i)]
    /\ policy \in {"baseline", "proposed"}
    /\ pc = "start"
    /\ schedule = <<>>
    /\ current_time = 0
    /\ completed_tasks = {}
    /\ ready = <<>>
    /\ cur = NoCur
    /\ attempts = [t \in DOMAIN tasks |-> 0]
    /\ ret = <<>>
    /\ seed = DefaultSeed
    /\ rng = random_seed(seed)
    /\ log = <<>>
    /\ prev = NoRun
    /\ NodeIdle

SpecTrialFair == FairInit /\ [][TrialNext]_vars /\ WF_vars(TrialNext)

\* ------------------------------------------------ the chain of tasks
\* Simulator.__init__ on a chain of tasks, each depending on the one before
\* it and each with the execution time 1.0, and a single node of any kind
ChainTasks(n, max_retries) ==
    [t \in 1..n |-> NewTask(t, ExecTimeOf(1), IF t = 1 THEN <<>> ELSE <<t - 1>>, max_retries)]

ChainInit ==
    /\ \E n \in 1..NTasks, mr \in {0, DefaultMaxRetries} :
          /\ tasks = ChainTasks(n, mr)
          /\ task_ids = Ascending(n)
    /\ res = NoRes
    /\ \E kind \in SeqToSet(Roster) : nodes = <<MakeNode(kind, 1)>>
    /\ policy \in {"baseline", "proposed"}
    /\ pc = "start"
    /\ schedule = <<>>
    /\ current_time = 0
    /\ completed_tasks = {}
    /\ ready = <<>>
    /\ cur = NoCur
    /\ attempts = [t \in DOMAIN tasks |-> 0]
    /\ ret = <<>>
    /\ seed = DefaultSeed
    /\ rng = random_seed(seed)
    /\ log = <<>>
    /\ prev = NoRun
    /\ NodeIdle

SpecChain == ChainInit /\ [][TrialNext]_vars

\* ------------------------------------------------ runs on one Simulator
\* Two calls of the simulate functions, one after the other, on one
\* Simulator; the draws are those of the generator.  The caller may reset
\* the nodes between the calls, as main.py does, or not.
Seeds == {DefaultSeed, DefaultSeed + 1}

\* main.py lines 211-212, 225-226 call node.reset_to_initial(), which
\* fog_node.py does not define; it is taken to be FogNode.reset
reset_to_initial(n) == node_reset(n)

RunsInit ==
    /\ \E n \in 1..NReadyTasks : \E deps \in DepSetMaps(n) :
          /\ tasks = MakeTasks(n, deps, DefaultMaxRetries)
          /\ task_ids = Ascending(n)
    /\ res = NoRes
    /\ nodes \in NodeLists
    /\ policy \in {"baseline", "proposed"}
    /\ pc = "start"
    /\ schedule = <<>>
    /\ current_time = 0
    /\ completed_tasks = {}
    /\ ready = <<>>
    /\ cur = NoCur
    /\ attempts = [t \in DOMAIN tasks |-> 0]
    /\ ret = <<>>
    /\ seed \in Seeds
    /\ rng = random_seed(seed)
    /\ log = <<>>
    /\ prev = NoRun
    /\ NodeIdle

\* lines 116 / 189 with the value the generator returns
ExecuteDrawn ==
    /\ rng.pos < Len(RandomStream(rng.seed))
    /\ Execute(random_random(rng))

\* the first call has returned; the caller resets the nodes or leaves
\* them, and calls a simulate function again
NextRun(p, reset) ==
    /\ pc = "done" /\ prev = NoRun
    /\ prev' = [policy |-> policy, log |-> log, ret |-> ret]
    /\ policy' = p
    /\ pc' = "start"
    /\ nodes' = IF reset THEN [j \in 1..Len(nodes) |-> reset_to_initial(nodes[j])] ELSE nodes
    /\ ret' = <<>>
    /\ cur' = NoCur
    /\ attempts' = [t \in DOMAIN tasks |-> 0]
    /\ UNCHANGED <<tasks, task_ids, res, schedule, current_time, completed_tasks, ready, seed, rng, log, nodeVars>>

RunsNext ==
    \/ SetupBaseline
    \/ SetupProposed
    \/ PassStart
    \/ AssignBaseline
    \/ AssignProposed
    \/ ExecuteDrawn
    \/ \E p \in {"baseline", "proposed"}, reset \in BOOLEAN : NextRun(p, reset)

SpecRuns == RunsInit /\ [][RunsNext]_vars

\* ------------------------------------------------ two trials in one process
\* One trial, and the steps of another trial of the same process that
\* touch the generator: its random.seed (simulator.py:30, 79, 149) and its
\* random.random (116, 189).  The other trial has its own Simulator, nodes
\* and tasks; the random module is the one thing the two share.
OtherSeed(s) ==
    /\ pc \notin {"done", "error"}
    /\ rng' = random_seed(s)
    /\ UNCHANGED <<dagVars, policy, pc, nodes, schedule, current_time, completed_tasks, ready, cur, attempts, ret, seed, log, prev, nodeVars>>

OtherDraw ==
    /\ pc \notin {"done", "error"}
    /\ rng.pos < MaxDraws
    /\ rng' = random_advance(rng)
    /\ UNCHANGED <<dagVars, policy, pc, nodes, schedule, current_time, completed_tasks, ready, cur, attempts, ret, seed, log, prev, nodeVars>>

SharedNext ==
    \/ SetupBaseline
    \/ SetupProposed
    \/ PassStart
    \/ AssignBaseline
    \/ AssignProposed
    \/ ExecuteDrawn
    \/ \E s \in Seeds : OtherSeed(s)
    \/ OtherDraw

SpecShared == RunsInit /\ [][SharedNext]_vars

\* ------------------------------------------------ the static policies
\* The two policies that do not learn: a baseline trial, and the
\* Prediction-only scheduler, which no simulate function drives: its two
\* methods are called as an engine would call them, select_node for a task
\* and on_task_result for a node id (known or not) and an outcome.
\* The node lists are those of the trials and two more, of a "stale" and a
\* "mobile" node in both orders.
StaleNodeLists ==
    { [i \in 1..2 |-> MakeNode(IF i = p THEN "stale" ELSE "mobile", i)] : p \in 1..2 }

StaticInit ==
    /\ \E n \in 1..NTasks : \E deps \in DepSetMaps(n) :
          /\ tasks = MakeTasks(n, deps, DefaultMaxRetries)
          /\ task_ids = Ascending(n)
    /\ res = NoRes
    /\ nodes \in NodeLists \cup StaleNodeLists
    /\ policy \in {"baseline", "dmits"}
    /\ pc = "start"
    /\ schedule = <<>>
    /\ current_time = 0
    /\ completed_tasks = {}
    /\ ready = <<>>
    /\ cur = NoCur
    /\ attempts = [t \in DOMAIN tasks |-> 0]
    /\ ret = <<>>
    /\ seed = DefaultSeed
    /\ rng = random_seed(seed)
    /\ log = <<>>
    /\ prev = NoRun
    /\ NodeIdle

DmitsSelectNode(t) ==
    /\ policy = "dmits" /\ pc # "error"
    /\ LET sel == dmits_select_node(nodes, tasks[t])
       IN  /\ nodes' = sel.nodes
           /\ cur' = [task |-> t, node |-> sel.index, outcome |-> "none"]
           /\ pc' = IF sel.error THEN "error" ELSE "selected"
    /\ UNCHANGED <<tasks, task_ids, res, policy, schedule, current_time, completed_tasks, ready, attempts, ret, runVars, nodeVars>>

DmitsOnTaskResult(node_id, success) ==
    /\ policy = "dmits" /\ pc # "error"
    /\ nodes' = dmits_on_task_result(nodes, node_id, success)
    /\ cur' = [cur EXCEPT !.outcome = IF success THEN "success" ELSE "failure"]
    /\ pc' = "reported"
    /\ UNCHANGED <<tasks, task_ids, res, policy, schedule, current_time, completed_tasks, ready, attempts, ret, runVars, nodeVars>>

StaticNext ==
    \/ SetupBaseline
    \/ PassStart
    \/ AssignBaseline
    \/ \E draw \in DrawLevels : Execute(draw)
    \/ \E t \in DOMAIN tasks : DmitsSelectNode(t)
    \/ \E node_id \in 1..(NNodes + 1), success \in BOOLEAN : DmitsOnTaskResult(node_id, success)

SpecStatic == StaticInit /\ [][StaticNext]_vars

\* ------------------------------------------------ selection among equals
\* The three policies on node lists in which nodes can be equal: every
\* list of up to NNodes kinds of the roster, the same kind more than once
\* too (node ids 1, 2, ... in list order).  A baseline trial, an adaptive
\* trial, and select_node of the Prediction-only scheduler for any task.
TiedNodeLists ==
    UNION { { [i \in 1..k |-> MakeNode(ks[i], i)] : ks \in [1..k -> SeqToSet(Roster)] } :
              k \in 1..NNodes }

TiesInit ==
    /\ \E n \in 1..NReadyTasks : \E deps \in DepSetMaps(n) :
          /\ tasks = MakeTasks(n, deps, DefaultMaxRetries)
          /\ task_ids = Ascending(n)
    /\ res = NoRes
    /\ nodes \in TiedNodeLists
    /\ policy \in {"baseline", "proposed", "dmits"}
    /\ pc = "start"
    /\ schedule = <<>>
    /\ current_time = 0
    /\ completed_tasks = {}
    /\ ready = <<>>
    /\ cur = NoCur
    /\ attempts = [t \in DOMAIN tasks |-> 0]
    /\ ret = <<>>
    /\ seed = DefaultSeed
    /\ rng = random_seed(seed)
    /\ log = <<>>
    /\ prev = NoRun
    /\ NodeIdle

TiesNext ==
    \/ SetupBaseline
    \/ SetupProposed
    \/ PassStart
    \/ AssignBaseline
    \/ AssignProposed
    \/ \E draw \in DrawLevels : Execute(draw)
    \/ \E t \in DOMAIN tasks : DmitsSelectNode(t)

SpecTies == TiesInit /\ [][TiesNext]_vars

\* the score of the Prediction-only policy for a node whose mobility has
\* been recomputed, with the bonus of a task, as the float it is
StateScore(n, task) ==
    fl(fl((DmitsMobility * n.mobility_score + DmitsSocial * n.social_trust
              + DmitsCentrality * n.centrality) * 128, 125)
          * (100 + 5 * Len(task.dependencies)), 100)

\* the node at place i is the first of the list among those with the key
\* of the node at place i or a larger one
FirstAmongBest(keys, i) == \A j \in 1..Len(keys) : keys[j] >= keys[i] => j >= i

\* C28: the node a policy picks has the largest score, and no node before
\* it in the node list has a score as large: the baseline schedule by
\* mobility score, the adaptive selection by utility, select_node by its
\* score.
C28_TieGoesToFirst ==
    /\ (policy = "baseline" /\ pc # "start") =>
          \A t \in DOMAIN schedule :
             /\ schedule[t] \in 1..Len(nodes)
             /\ FirstAmongBest([j \in 1..Len(nodes) |-> nodes[j].mobility_score], schedule[t])
    /\ (policy = "proposed" /\ pc = "run") =>
          FirstAmongBest([j \in 1..Len(nodes) |-> nodes[j].reliability_score], cur.node)
    /\ (policy = "dmits" /\ pc = "selected") =>
          FirstAmongBest([j \in 1..Len(nodes) |-> StateScore(nodes[j], tasks[cur.task])], cur.node)

\* the baseline has scheduled a task on the first of two nodes of equal
\* mobility score
C28_Witness ==
    /\ policy = "baseline" /\ schedule # <<>>
    /\ Len(nodes) >= 2
    /\ nodes[1].mobility_score = nodes[2].mobility_score
    /\ \A t \in DOMAIN schedule : schedule[t] = 1

\* the adaptive selection has picked the first of two nodes of equal
\* utility that differ in trust
C28_TieAdaptive ==
    /\ policy = "proposed" /\ pc = "run"
    /\ \E j \in 1..Len(nodes) :
          /\ j > cur.node
          /\ nodes[j].reliability_score = nodes[cur.node].reliability_score
          /\ nodes[j].trust_score # nodes[cur.node].trust_score

\* select_node has picked the first of two nodes of equal score
C28_TieDmits ==
    /\ policy = "dmits" /\ pc = "selected"
    /\ \E j \in 1..Len(nodes) :
          /\ j > cur.node
          /\ StateScore(nodes[j], tasks[cur.task]) = StateScore(nodes[cur.node], tasks[cur.task])

\* ------------------------------------------------ feedback on one node
\* Outcomes reported for one node, of any trust in [0, 1] in steps of 0.05:
\* through ProposedScheduler.update_node_trust (policy "proposed", 0.10 up
\* and 0.15 down) or through FogNode.update_trust with its default steps
\* (policy "none", 0.05 up and 0.10 down).  The log keeps each outcome with
\* the trust before and after it and the increment in force.
FeedbackInit ==
    /\ \E t \in 0..Scale :
          nodes = << NewFogNode(1, 0, t, 10, 0, "fixture", t, 10, "", 0, 0) >>
    /\ policy \in {"proposed", "none"}
    /\ pc = "idle" /\ schedule = <<>>
    /\ current_time = 0 /\ completed_tasks = {} /\ ready = <<>>
    /\ cur = NoCur /\ attempts = <<>> /\ ret = <<>>
    /\ seed = DefaultSeed /\ rng = random_seed(seed) /\ log = <<>> /\ prev = NoRun
    /\ DagIdle
    /\ NodeIdle

ReportOutcome(success) ==
    /\ Len(log) < MaxOps
    /\ nodes' = IF policy = "proposed"
                THEN update_node_trust(nodes, nodes[1].node_id, success)
                ELSE <<node_update_trust(nodes[1], success, DefaultInc, DefaultDec)>>
    /\ log' = Append(log, [node |-> nodes[1].node_id, success |-> success,
                           before |-> nodes[1].trust_score,
                           after |-> nodes'[1].trust_score,
                           inc |-> IF policy = "proposed" THEN AdaptiveInc ELSE DefaultInc])
    /\ UNCHANGED <<tasks, task_ids, res, policy, pc, schedule, current_time, completed_tasks, ready, cur, attempts, ret, seed, rng, prev, nodeVars>>

FeedbackNext == \E success \in BOOLEAN : ReportOutcome(success)

SpecFeedback == FeedbackInit /\ [][FeedbackNext]_vars

\* C31 (as claimed): a success and a failure, one right after the other in
\* either order, never leave trust_score above what it was before the two.
C31_PairNeverRaisesTrust ==
    \A k \in 1..(Len(log) - 1) :
        log[k].success # log[k + 1].success => log[k + 1].after <= log[k].before

\* C31 (amended): a success followed by a failure never leaves trust_score
\* above what it was before the two; a failure followed by a success does
\* not either when the trust before was at least the increment, and from a
\* trust below the increment it leaves trust_score at the increment.
C31_PairRaisesOnlyFromFloor ==
    \A k \in 1..(Len(log) - 1) :
        log[k].success # log[k + 1].success =>
            /\ log[k].success => log[k + 1].after <= log[k].before
            /\ log[k].before >= log[k].inc => log[k + 1].after <= log[k].before
            /\ (~log[k].success /\ log[k].before < log[k].inc) => log[k + 1].after = log[k].inc

\* a failure and then a success on a node of trust 0.0 with the default
\* steps of FogNode.update_trust: trust is 0.05 afterwards
C31_Witness ==
    /\ policy = "none"
    /\ Len(log) = 2
    /\ ~log[1].success /\ log[2].success
    /\ log[1].before = 0
    /\ log[2].after = DefaultInc

\* ------------------------------------------------ the failure model
\* _calculate_failure_probability on the nodes of a Simulator: two nodes,
\* whose reliabilities range over [0, 1] in steps of 0.025 (trust and
\* mobility equal or one step of 0.05 apart), each evaluated once, in
\* either order; the log keeps what was passed and what came back
FailureInit ==
    /\ \E t1 \in 0..Scale, t2 \in 0..Scale, d1 \in {0, 1}, d2 \in {0, 1} :
          nodes = << NewFogNode(1, 0, t1, Min(t1 + d1, Scale), 0, "fixture", t1, 10, "", 0, 0),
                     NewFogNode(2, 0, t2, Min(t2 + d2, Scale), 0, "fixture", t2, 10, "", 0, 0) >>
    /\ policy = "none" /\ pc = "idle" /\ schedule = <<>>
    /\ current_time = 0 /\ completed_tasks = {} /\ ready = <<>>
    /\ cur = NoCur /\ attempts = <<>> /\ ret = <<>>
    /\ seed = DefaultSeed /\ rng = random_seed(seed) /\ log = <<>> /\ prev = NoRun
    /\ DagIdle
    /\ NodeIdle

CalculateFailureProbability(i) ==
    /\ \A k \in 1..Len(log) : log[k].node # i
    /\ log' = Append(log, [node |-> i,
                           reliability |-> get_reliability_score(nodes[i]),
                           prob |-> calculate_failure_probability(nodes[i])])
    /\ UNCHANGED <<tasks, task_ids, res, policy, pc, nodes, schedule, current_time, completed_tasks, ready, cur, attempts, ret, seed, rng, prev, nodeVars>>

FailureNext == \E i \in 1..2 : CalculateFailureProbability(i)

SpecFailure == FailureInit /\ [][FailureNext]_vars

C1_DependenciesFirst ==
    \A t \in DOMAIN tasks :
        (tasks[t].status \in {"running", "completed"} \/ attempts[t] > 0) =>
            \A d \in DepSet(tasks, t) :
                d \in DOMAIN tasks /\ tasks[d].status = "completed"

\* a task with two dependencies is Running, both Completed, in a trial in
\* which another task is still Pending
C1_Witness ==
    /\ pc = "run"
    /\ tasks[cur.task].status = "running"
    /\ Cardinality(DepSet(tasks, cur.task)) = 2
    /\ \A d \in DepSet(tasks, cur.task) : tasks[d].status = "completed"

\* C6 (as claimed): when an execution attempt of a task fails, its
\* retry_count is incremented (so it counts the failed attempts); while
\* the new retry_count <= max_retries the task is Pending again, and once
\* it is larger the task is Failed.
C6_RetryOnFailure ==
    cur.outcome = "failure" =>
        LET k == tasks[cur.task]
        IN  IF attempts[cur.task] <= k.max_retries
            THEN k.status = "pending" /\ k.retry_count = attempts[cur.task]
            ELSE k.status = "failed"

\* C7 (as claimed): at the end of a trial no task has been attempted more
\* than max_retries + 1 times, and a task that is Failed has made
\* max_retries + 1 failed attempts.
C7_FailedOnlyAfterAllRetries ==
    pc = "done" =>
        \A t \in DOMAIN tasks :
            /\ attempts[t] <= tasks[t].max_retries + 1
            /\ tasks[t].status = "failed" => attempts[t] = tasks[t].max_retries + 1

\* the reliability a node has by its trust and mobility as they are now,
\* under the weights the simulator uses (it passes none: 0.5 and 0.5)
ReliabilityNow(n) == DefaultTW * n.trust_score + DefaultMW * n.mobility_score

AfterFeedback(n, success) ==
    LET t == IF success THEN Min(n.trust_score + AdaptiveInc, Scale)
             ELSE Max(n.trust_score - AdaptiveDec, 0)
    IN  [n EXCEPT !.trust_score = t,
                  !.successes = IF success THEN @ + 1 ELSE @,
                  !.failures = IF success THEN @ ELSE @ + 1,
                  !.reliability_score = DefaultTW * t + DefaultMW * n.mobility_score]

C13_BaselineOneNode ==
    policy = "baseline" =>
        LET used == {log[k].node : k \in 1..Len(log)} \cup
                    (IF pc = "run" THEN {nodes[cur.node].node_id} ELSE {})
        IN  /\ Cardinality(used) <= 1
            /\ \A u \in used : \A j \in 1..Len(nodes) :
                  nodes[j].mobility_score <= nodes[NodeIndexById(nodes, u)].mobility_score
            /\ \A k \in 1..Len(log) : tasks[log[k].task].assigned_node = log[k].node
            /\ \A j \in 1..Len(nodes) : nodes[j].mobility_score = nodes[j].initial_mobility

\* a finished baseline trial of two attempts or more, the first a failure,
\* on the second node of the list, which is not the most reliable one alone
C13_Witness ==
    /\ policy = "baseline" /\ pc = "done"
    /\ Len(log) >= 2 /\ ~log[1].success /\ log[2].success
    /\ Len(nodes) >= 2 /\ log[1].node = nodes[2].node_id
    /\ nodes[1].reliability_score >= nodes[2].reliability_score

\* C14: under the Baseline and the Prediction-only policies every node's
\* trust_score is, in every state, the trust_score it started with: no
\* attempt, no selection and no feedback call changes it.
C14_StaticTrustUnchanged ==
    policy \in {"baseline", "dmits"} =>
        \A j \in 1..Len(nodes) : nodes[j].trust_score = nodes[j].initial_trust

\* the Prediction-only scheduler has selected a node, which set the
\* mobility of a node anew, and has then been told that the node failed
C14_Witness ==
    /\ policy = "dmits" /\ pc = "reported"
    /\ cur.node # 0 /\ cur.outcome = "failure"
    /\ \E j \in 1..Len(nodes) : nodes[j].mobility_score # nodes[j].initial_mobility

AllCompleted == \A t \in DOMAIN tasks : tasks[t].status = "completed"
Stalled ==
    /\ ~AllCompleted
    /\ get_ready_tasks(tasks, task_ids, completed_tasks) = <<>>

\* C15: every trial, whatever its task set and whatever the draws, comes
\* to an end and stays there: it has returned with all tasks Completed, or
\* it has returned with an empty ready set and unfinished tasks (stall);
\* the only other end is the exception of a trial that was given no node.
\* The loop is bounded: no trial makes more attempts than it has tasks, so
\* it makes fewer passes than any cap of 10 times the task count.
C15_TrialTerminates ==
    /\ <>[](\/ pc = "done" /\ (AllCompleted \/ Stalled)
            \/ pc = "error" /\ nodes = <<>>)
    /\ [](Len(log) <= Cardinality(DOMAIN tasks))

\* a trial that ended in a stall: an attempt failed, and the task that
\* depends on the failed one is still Pending
C15_Witness ==
    /\ pc = "done" /\ Stalled
    /\ \E t \in DOMAIN tasks :
          /\ tasks[t].status = "pending"
          /\ \E d \in DepSet(tasks, t) : d \in DOMAIN tasks /\ tasks[d].status = "failed"

\* C16: when the loop finds the ready set empty while unfinished tasks
\* remain, its next step is the return, with no further attempt and no
\* change to a task or node, and the value returned is the tuple (total
\* time, number of Completed tasks, number of tasks); and a trial raises
\* only when it was given no node.
C16_StallReturnsResult ==
    [][ /\ (pc = "loop" /\ Stalled) =>
              /\ pc' = "done"
              /\ ret' = <<current_time,
                          Cardinality({t \in DOMAIN tasks : tasks[t].status = "completed"}),
                          Cardinality(DOMAIN tasks)>>
              /\ tasks' = tasks /\ nodes' = nodes /\ log' = log
        /\ pc' = "error" => nodes' = <<>> ]_vars

\* a trial that stalled after one task Completed and another Failed, and
\* returned the partial result
C16_Witness ==
    /\ pc = "done" /\ Stalled
    /\ Len(ret) = 3 /\ ret[2] >= 1 /\ ret[2] < ret[3] /\ ret[1] > 0
    /\ \E t \in DOMAIN tasks : tasks[t].status = "failed"

\* C17 (as claimed): two runs of the same policy made one after the other
\* on the same Simulator, with the same seed, nodes and tasks, have the
\* same sequence of attempts (task, node, success, cumulative time,
\* reliability at decision time) and return the same result.
C17_RepeatedRunsAgree ==
    (pc = "done" /\ prev # NoRun /\ prev.policy = policy) =>
        log = prev.log /\ ret = prev.ret

\* C18 (as claimed): when a run of another policy follows a run on the
\* same Simulator, the state it starts from, once its own setup is done,
\* is that of a Simulator on which nothing has run: every node has its
\* initial trust and reliability and its initial counters, and every task
\* is Pending with no times and no retries.
C18_FollowingRunStartsFresh ==
    (prev # NoRun /\ prev.policy # policy /\ pc = "loop" /\ log = <<>>) =>
        /\ \A j \in 1..Len(nodes) :
              /\ nodes[j].trust_score = nodes[j].initial_trust
              /\ nodes[j].reliability_score = nodes[j].initial_reliability
              /\ nodes[j].successes = nodes[j].past_success
              /\ nodes[j].failures = nodes[j].past_failure
        /\ \A t \in DOMAIN tasks :
              /\ tasks[t].status = "pending"
              /\ tasks[t].start_time = None /\ tasks[t].finish_time = None
              /\ tasks[t].retry_count = 0

\* C19 (as claimed): whatever steps of another trial come between the
\* steps of a trial, the value the trial draws for its k-th attempt is the
\* k-th value of the stream of its own seed, as when it runs alone.
C19_OwnStreamOfDraws ==
    pc = "run" => random_random(rng) = RandomStream(seed)[Len(log) + 1]

\* C20 (as claimed): a trial that makes an execution attempt, or that
\* returns a result, was given an acyclic task set whose dependencies all
\* name tasks of the set, and at least one node.
C20_ConfigurationErrorsFatal ==
    (Len(log) > 0 \/ pc \in {"run", "done"}) =>
        /\ Acyclic(tasks)
        /\ AllDepsKnown(tasks)
        /\ nodes # <<>>

\* a finished trial of the chain 1 <- 2 <- 3, execution time 1.0 each, on a
\* single node, in which no attempt failed
ChainOfThreeDone ==
    /\ pc = "done"
    /\ DOMAIN tasks = 1..3
    /\ \A t \in 1..3 :
          /\ tasks[t].execution_time = ExecTimeOf(1)
          /\ tasks[t].dependencies = IF t = 1 THEN <<>> ELSE <<t - 1>>
    /\ Len(nodes) = 1
    /\ \A i \in 1..Len(log) : log[i].success

\* C24 (as claimed): the chain of three tasks of 1.0 each on a single node
\* without a failed attempt completes in the order 1, 2, 3 and returns
\* total_time 3.0 and 3 of 3 completed.
C24_ChainTotalIsThree ==
    ChainOfThreeDone =>
        /\ [i \in 1..Len(log) |-> log[i].task] = <<1, 2, 3>>
        /\ ret = <<3 * ExecTimeOf(1), 3, 3>>

\* C24 (amended): the chain of three tasks of 1.0 each on a single node
\* without a failed attempt completes in the order 1, 2, 3 with 3 of 3
\* completed, and total_time is 3.0 / (1 + speed / 100) for the speed of
\* the node: 3.0 on a node of speed 0.
C24_ChainTotalScaled ==
    ChainOfThreeDone =>
        /\ [i \in 1..Len(log) |-> log[i].task] = <<1, 2, 3>>
        /\ ret[1] * (100 + nodes[1].speed) = 3 * ExecTimeOf(1) * 100
        /\ ret[2] = 3 /\ ret[3] = 3
        /\ nodes[1].speed = 0 => ret[1] = 3 * ExecTimeOf(1)

\* the chain has finished on a node of positive speed in less than 3.0
C24_Witness ==
    /\ ChainOfThreeDone
    /\ nodes[1].speed > 0
    /\ ret[1] < 3 * ExecTimeOf(1)
    /\ ret[2] = 3

\* C26 (as claimed): every execution attempt, successful or failed, moves
\* the clock forward by the task's execution time scaled by the speed of the
\* node, and a task that succeeds has the clock after that advance as its
\* finish_time.
C26_ClockAdvancesEveryAttempt ==
    [][ Len(log') = Len(log) + 1 =>
          /\ current_time' * (100 + nodes[cur.node].speed)
                 = current_time * (100 + nodes[cur.node].speed)
                   + tasks[cur.task].execution_time * 100
          /\ log'[Len(log')].success => tasks'[cur.task].finish_time = current_time' ]_vars

\* C27: a step of a trial takes the next value of the generator exactly
\* when it is an execution attempt, and the outcome of the attempt is that
\* value against the failure probability of the node; the steps that pick
\* the next ready task and its node, or pass a task over, take none; so
\* during a call the number of values taken is the number of attempts made.
C27_OneDrawPerAttempt ==
    [][ /\ (Len(log') = Len(log) + 1) <=> (rng' = random_advance(rng))
        /\ Len(log') = Len(log) + 1 =>
              log'[Len(log')].success
                 = (random_random(rng) > calculate_failure_probability(nodes[cur.node]))
        /\ pc = "exec" => rng' = rng
        /\ pc' \in {"loop", "exec", "run", "done"} => rng'.pos = Len(log') ]_vars

\* a call has returned after one attempt, which failed on the first value
\* of the stream, and one value has been taken: the task that depends on
\* the failed one was never attempted
C27_Witness ==
    /\ pc = "done"
    /\ Len(log) = 1
    /\ rng.pos = 1
    /\ ~log[1].success
    /\ RandomStream(seed)[1] <= FailureTable[log[1].reliability + 1]
    /\ \E t \in DOMAIN tasks : attempts[t] = 0 /\ tasks[t].status = "pending"

\* the score of the claim: the weighted sum with the stay probability of
\* the node's current state, times 1 + 0.05 per dependency of the task
\* (weights and bonus in 1/100), the sum and the product each a float
PredictedScore(n, task) ==
    fl(fl((DmitsMobility * stay_probability(n.tm, n.current_state)
              + DmitsSocial * n.social_trust + DmitsCentrality * n.centrality) * 128, 125)
          * (100 + 5 * Len(task.dependencies)), 100)

\* the same sum with the mobility score the node was built with
InitialScore(n, task) ==
    fl(fl((DmitsMobility * n.initial_mobility
              + DmitsSocial * n.social_trust + DmitsCentrality * n.centrality) * 128, 125)
          * (100 + 5 * Len(task.dependencies)), 100)

\* C29: the node select_node(task) returns has the largest value of
\* (w_mobility * stay probability of the current state + w_social *
\* social_trust + w_centrality * centrality) * (1 + 0.05 * number of
\* dependencies), and after the call every node holds the stay probability
\* of its current state as its mobility score.
C29_SelectMaximisesScore ==
    (policy = "dmits" /\ pc = "selected") =>
        /\ cur.node \in 1..Len(nodes)
        /\ \A j \in 1..Len(nodes) :
              /\ PredictedScore(nodes[j], tasks[cur.task])
                    <= PredictedScore(nodes[cur.node], tasks[cur.task])
              /\ nodes[j].mobility_score
                    = stay_probability(nodes[j].tm, nodes[j].current_state)

\* select_node has returned, for a task with a dependency, a node that the
\* mobility scores the nodes were built with would not have put first
C29_Witness ==
    /\ policy = "dmits" /\ pc = "selected"
    /\ tasks[cur.task].dependencies # <<>>
    /\ \E j \in 1..Len(nodes) :
          /\ InitialScore(nodes[j], tasks[cur.task]) > InitialScore(nodes[cur.node], tasks[cur.task])
          /\ PredictedScore(nodes[j], tasks[cur.task]) < PredictedScore(nodes[cur.node], tasks[cur.task])

\* a trial over a valid task set has returned with tasks not Completed
ValidStall ==
    /\ pc = "done"
    /\ Acyclic(tasks) /\ AllDepsKnown(tasks)
    /\ \E t \in DOMAIN tasks : tasks[t].status # "completed"

\* C33: when a trial over an acyclic task set with known dependencies has
\* ended with tasks not Completed, each of these is Failed or depends,
\* directly or through other tasks, on a Failed task, and no Pending task
\* has all its dependencies Completed.
C33_StallBehindFailure ==
    ValidStall =>
        \A t \in DOMAIN tasks :
            tasks[t].status # "completed" =>
                /\ \/ tasks[t].status = "failed"
                   \/ \E d \in DependsOn(tasks, t) : tasks[d].status = "failed"
                /\ tasks[t].status = "pending" =>
                      \E d \in DepSet(tasks, t) : tasks[d].status # "completed"

\* a trial has ended with a Failed task, a Pending task that depends on
\* it, and a Pending task that depends on the Failed one only through that
\* Pending task
C33_Witness ==
    /\ ValidStall
    /\ \E t, u, v \in DOMAIN tasks :
          /\ tasks[t].status = "failed"
          /\ tasks[u].status = "pending" /\ t \in DepSet(tasks, u)
          /\ tasks[v].status = "pending" /\ DepSet(tasks, v) = {u}

\* the counts of the value returned: the completed count is the number of
\* Completed tasks and the size of the completed set of the loop, and the
\* total count the number of tasks
ReturnedCounts ==
    /\ ret[2] = Cardinality({t \in DOMAIN tasks : tasks[t].status = "completed"})
    /\ ret[2] = Cardinality(completed_tasks)
    /\ ret[3] = Cardinality(DOMAIN tasks)

\* C34 (as claimed): the value a trial returns holds the completed count,
\* equal to the number of Completed tasks and to the size of the completed
\* set, and, after the total count, the list of failed ids, which are
\* exactly the Failed tasks; completed count plus failed ids is at most the
\* total count.
C34_ReturnedCountsAndFailedIds ==
    pc = "done" =>
        /\ ReturnedCounts
        /\ Len(ret) >= 4
        /\ SeqToSet(ret[4]) = {t \in DOMAIN tasks : tasks[t].status = "failed"}
        /\ ret[2] + Len(ret[4]) <= ret[3]

\* C35: in every step of a trial a Completed task keeps its status and its
\* finish_time and is not attempted, a Failed task stays Failed and is not
\* attempted, neither is in the ready list the loop works through, and the
\* task the loop selects is one that was Pending.
C35_SettledTasksLeftAlone ==
    [][ /\ \A t \in DOMAIN tasks :
              /\ tasks[t].status = "completed" =>
                    /\ tasks'[t].status = "completed"
                    /\ tasks'[t].finish_time = tasks[t].finish_time
                    /\ attempts'[t] = attempts[t]
              /\ tasks[t].status = "failed" =>
                    /\ tasks'[t].status = "failed"
                    /\ attempts'[t] = attempts[t]
        /\ \A t \in SeqToSet(ready') : tasks'[t].status \notin {"completed", "failed"}
        /\ (pc' = "run" /\ pc # "run") => tasks[cur'.task].status = "pending" ]_vars

\* a task was attempted in a second pass, after one task had been Completed
\* and another had Failed in the first; each task was attempted once
C35_Witness ==
    /\ Len(log) = 3
    /\ log[1].success /\ ~log[2].success
    /\ log[1].task \in DepSet(tasks, log[3].task)
    /\ tasks[log[1].task].status = "completed"
    /\ tasks[log[2].task].status = "failed"
    /\ \A t \in DOMAIN tasks : attempts[t] = 1

\* C36: no step of a trial moves the clock back; after every step each
\* Completed task has a finish_time above that of each of its dependencies
\* and at most the clock, no two Completed tasks have the same finish_time
\* (also those that do not depend on each other), and the total_time
\* returned is the clock, so at least every finish_time.
C36_ClockAndFinishTimes ==
    [][ /\ current_time' >= current_time
        /\ \A t \in DOMAIN tasks' :
              tasks'[t].status = "completed" =>
                 /\ tasks'[t].finish_time <= current_time'
                 /\ \A d \in DepSet(tasks', t) :
                       /\ d \in DOMAIN tasks'
                       /\ tasks'[d].status = "completed"
                       /\ tasks'[d].finish_time < tasks'[t].finish_time
                 /\ \A u \in DOMAIN tasks' \ {t} :
                       tasks'[u].status = "completed" =>
                          tasks'[u].finish_time # tasks'[t].finish_time
                 /\ pc' = "done" => tasks'[t].finish_time <= ret'[1] ]_vars

\* a trial has returned with three tasks Completed: two that do not depend
\* on each other, finished one after the other, and one that depends on
\* the first of them and finished last, at the total_time returned
C36_Witness ==
    /\ pc = "done"
    /\ \E t, u, v \in DOMAIN tasks :
          /\ tasks[t].dependencies = <<>> /\ tasks[u].dependencies = <<>>
          /\ tasks[v].dependencies = <<t>>
          /\ tasks[t].status = "completed" /\ tasks[u].status = "completed"
          /\ tasks[v].status = "completed"
          /\ tasks[t].finish_time < tasks[u].finish_time
          /\ tasks[u].finish_time < tasks[v].finish_time
          /\ tasks[v].finish_time = ret[1]

\* ------------------------------------------------ the dependency bonus
\* select_node of the Prediction-only scheduler, called for any task of a
\* task set on a node list: the lists of the static policies and two more,
\* of a "near" and a "nearer" node in both orders.
CloseNodeLists ==
    { [i \in 1..2 |-> MakeNode(IF i = p THEN "nearer" ELSE "near", i)] : p \in 1..2 }

BonusInit ==
    /\ \E n \in 1..NTasks : \E deps \in DepSetMaps(n) :
          /\ tasks = MakeTasks(n, deps, DefaultMaxRetries)
          /\ task_ids = Ascending(n)
    /\ res = NoRes
    /\ nodes \in NodeLists \cup StaleNodeLists \cup CloseNodeLists
    /\ policy = "dmits"
    /\ pc = "start"
    /\ schedule = <<>>
    /\ current_time = 0
    /\ completed_tasks = {}
    /\ ready = <<>>
    /\ cur = NoCur
    /\ attempts = [t \in DOMAIN tasks |-> 0]
    /\ ret = <<>>
    /\ seed = DefaultSeed
    /\ rng = random_seed(seed)
    /\ log = <<>>
    /\ prev = NoRun
    /\ NodeIdle

BonusNext == \E t \in DOMAIN tasks : DmitsSelectNode(t)

SpecBonus == BonusInit /\ [][BonusNext]_vars

\* the node select_node returns for a task on the node list as it is
ChosenFor(task) == dmits_select_node(nodes, task).index

\* C38 as stated: the node select_node has returned is the node it returns
\* for every task of the set, whatever the number of its dependencies
C38_SameNodeForEveryTask ==
    pc = "selected" => \A u \in DOMAIN tasks : ChosenFor(tasks[u]) = cur.node

\* C38: the nodes select_node returns for two tasks are the same node
\* unless the scores of the two nodes round to the same float under the
\* bonus of one of the two tasks
C38_SameNodeUnlessRoundedEqual ==
    pc = "selected" =>
        \A u \in DOMAIN tasks :
            LET i == cur.node
                j == ChosenFor(tasks[u])
                t == tasks[cur.task]
            IN  \/ i = j
                \/ PredictedScore(nodes[i], t) = PredictedScore(nodes[j], t)
                \/ PredictedScore(nodes[i], tasks[u]) = PredictedScore(nodes[j], tasks[u])

\* select_node has returned the first of a "near" and a "nearer" node for a
\* task with a dependency, and returns the second for a task without one
C38_Witness ==
    /\ pc = "selected"
    /\ Len(nodes) = 2
    /\ nodes[1].centrality < nodes[2].centrality
    /\ nodes[1].tm = "sticky"
    /\ Len(tasks[cur.task].dependencies) > 0
    /\ cur.node = 1
    /\ \E u \in DOMAIN tasks : tasks[u].dependencies = <<>> /\ ChosenFor(tasks[u]) = 2

\* ------------------------------------------------ what a clone carries
\* C39: right after clone(), the clone's trust_score, mobility_score,
\* reliability_score, current_state and successes/failures counters equal
\* the original's current values, whatever update_trust and
\* compute_reliability calls the original has been through
C39_ClonePreservesState ==
    last.op = "clone" =>
        /\ fn["clone"].trust_score = fn["orig"].trust_score
        /\ fn["clone"].mobility_score = fn["orig"].mobility_score
        /\ fn["clone"].reliability_score = fn["orig"].reliability_score
        /\ fn["clone"].current_state = fn["orig"].current_state
        /\ fn["clone"].successes = fn["orig"].successes
        /\ fn["clone"].failures = fn["orig"].failures

\* the part of C39 that the constructor call keeps: the two scores and
\* the mobility state
C39_CloneKeepsScoresAndState ==
    last.op = "clone" =>
        /\ fn["clone"].trust_score = fn["orig"].trust_score
        /\ fn["clone"].mobility_score = fn["orig"].mobility_score
        /\ fn["clone"].current_state = fn["orig"].current_state

====
